---------------------------- MODULE Spec2Model ----------------------------
(***************************************************************************)
(* Model of the omw parameter-marshalling layer (alixinne/omw).            *)
(*                                                                         *)
(* Two builds of the wrapper are modelled, selected by `host`:             *)
(*   "M"  omw::mathematica  (WSTP link: a consumed token stream)           *)
(*   "O"  omw::octave(w)    (an argument list with random access)          *)
(*                                                                         *)
(* One call session is  Invoke ; user steps ... ; Return | Catch.  The     *)
(* user function body is any sequence of get_param, get_params (with the   *)
(* iteration of the reader it returns) and write_result calls, and throws. *)
(*                                                                         *)
(* Host primitives (WSGet..., WSPut..., octave_value predicates) are not   *)
(* code of the repository.  They are modelled by the contract the readers  *)
(* rely on: a typed get succeeds exactly when the next token has the       *)
(* requested type and then consumes the whole expression; a failed get     *)
(* consumes nothing.                                                       *)
(***************************************************************************)
EXTENDS Integers, Sequences, FiniteSets, TLC

VARIABLES
    host,        \* "M" or "O": which wrapper class this build uses
    pc,          \* position of run_function: Idle, Active, Thrown, Escaped
    done,        \* how the last invocation ended: none, Completed, Failed
    nwrites,     \* write_result calls made in the current session
    cur,         \* mathematica::current_param_idx_
    hasResult,   \* mathematica::has_result_
    link,        \* tokens of the current call packet on the WSTP link
    pos,         \* read position on the link (1-based index of next token)
    out,         \* tokens put on the link during the current invocation
    args,        \* octave: *current_args_
    result,      \* octave: result_
    rstack,      \* octave: result_stack_ (targets, as paths into result_)
    returned,    \* octave: what run_function returned to the interpreter
    ostdout,     \* octave: lines written to octave_stdout by this invocation
    thrown,      \* the exception in flight
    last,        \* observation of the last user operation
    locals,      \* local variables of the user function being run
    handles,     \* foreign buffer handles made by committed array/matrix reads
    matricesAsImages,  \* wrapper_base::matrices_as_images_
    userInitializer,   \* wrapper_base::user_initializer_ holds a callable
    initLog,           \* outcome of each check_initialization call made so far
    autoloadPath,      \* octave::autoload_path_
    autoloads          \* octave: registrations made through feval("autoload")

vars == <<host, pc, done, nwrites, cur, hasResult, link, pos, out,
          args, result, rstack, returned, ostdout, thrown, last, locals, handles,
          matricesAsImages, userInitializer, initLog, autoloadPath, autoloads>>

\* the configuration of the wrapper object, which no session step touches
wvars == <<matricesAsImages, userInitializer, initLog, autoloadPath, autoloads>>

(***************************************************************************)
(* Bounds of the model                                                     *)
(***************************************************************************)
MaxIdx == 2
MaxWrites == 2

\* std::numeric_limits<size_t>::max(), the "closed" cursor; written -1
Closed == -1

(***************************************************************************)
(* Parameter shapes (the template arguments of param_reader)               *)
(***************************************************************************)
Atom(k) == [k |-> k, sub |-> <<>>]
Opt(T) == [k |-> "optional", sub |-> <<T>>]
Tup(ts) == [k |-> "tuple", sub |-> ts]
Var(ts) == [k |-> "variant", sub |-> ts]

AtomKinds == {"bool", "int", "uint", "float", "string", "array", "matrix"}
AtomShapes == {Atom(k) : k \in AtomKinds}

IsAtom(sh) == sh.k \in AtomKinds

(***************************************************************************)
(* The WSTP link: incoming tokens.  An expression is one token (INT, REAL, *)
(* STR, SYM) or a FUNC head followed by its n argument expressions.        *)
(***************************************************************************)
Tk(t, s, n) == [t |-> t, s |-> s, n |-> n]
EndTok == Tk("END", "", 0)

Tok(p) == IF p \in 1..Len(link) THEN link[p] ELSE EndTok

RECURSIVE Flatten(_)
Flatten(es) == IF es = <<>> THEN <<>> ELSE Head(es) \o Flatten(Tail(es))

EInt(n) == <<Tk("INT", "", n)>>
EReal == <<Tk("REAL", "", 0)>>
EStr == <<Tk("STR", <<115>>, 0)>>
ESym(s) == <<Tk("SYM", s, 0)>>
EList(es) == <<Tk("FUNC", "List", Len(es))>> \o Flatten(es)

EPair == EList(<<EInt(6), EInt(7)>>)
ERealList == EList(<<EReal, EReal>>)

\* the call packets the kernel may send: sequences of argument expressions
Packets ==
    { <<>>,
      <<EInt(6)>>, <<EReal>>, <<EStr>>, <<ESym("True")>>, <<ESym("x")>>,
      <<EInt(6), EInt(7)>>, <<ESym("x"), EInt(7)>>, <<ESym("Null"), EInt(7)>>,
      <<EStr, EStr>>, <<ESym("False"), EStr>>,
      <<EPair>>, <<EPair, EInt(6)>>, <<EInt(6), EPair>>,
      <<EList(<<EInt(6), EInt(7), EInt(6)>>)>>,
      <<EList(<<EPair, EInt(6)>>)>>,
      <<EList(<<EPair, EPair>>)>>,
      <<EList(<<>>), EInt(6)>>,
      <<EList(<<EInt(6), EStr>>)>>,
      <<ERealList>>, <<ERealList, EInt(6)>>,
      <<EList(<<ERealList, ERealList>>)>> }

Wires == {Flatten(q) : q \in Packets}

\* WSGetReal32List succeeds on List[r1, ..., rn] with every ri a real
IsRealList(p) ==
    /\ Tok(p).t = "FUNC"
    /\ Tok(p).s = "List"
    /\ \A i \in 1..Tok(p).n : Tok(p + i).t = "REAL"

\* WSGetReal32Array succeeds on a rectangular array of reals (depth 1 or 2)
IsRealArray(p) ==
    \/ IsRealList(p)
    \/ /\ Tok(p).t = "FUNC"
       /\ Tok(p).s = "List"
       /\ Tok(p).n >= 1
       /\ IsRealList(p + 1)
       /\ \A i \in 0..(Tok(p).n - 1) :
             /\ IsRealList(p + 1 + i * (Tok(p + 1).n + 1))
             /\ Tok(p + 1 + i * (Tok(p + 1).n + 1)).n = Tok(p + 1).n

\* number of tokens of the real array at p
RealArrayLen(p) ==
    IF IsRealList(p) THEN 1 + Tok(p).n
    ELSE 1 + Tok(p).n * (Tok(p + 1).n + 1)

ArrayDepth(p) == IF IsRealList(p) THEN 1 ELSE 2

(***************************************************************************)
(* Reader states and results.  A reader runs on st = [cur, pos, ev] (the   *)
(* cursor, the link position and the transport calls made so far) and     *)
(* yields the new st, the error thrown ("" if none), the success flag and  *)
(* the value.                                                              *)
(***************************************************************************)
V(k, n, s, tag, sub) == [k |-> k, n |-> n, s |-> s, tag |-> tag, sub |-> sub]
NoVal == V("none", 0, "", 0, <<>>)

Log(st, e, p) == [st EXCEPT !.ev = Append(@, [e |-> e, p |-> p])]
Res(st, ok, val) == [st |-> st, err |-> "", ok |-> ok, val |-> val]
Throw(st, e) == [st |-> st, err |-> e, ok |-> FALSE, val |-> NoVal]

\* Mutation of IdxMismatch: only an index ahead of the cursor is rejected
IdxMismatch_Ahead(st, idx) == st.cur < idx

\* current_param_idx_ != paramIdx
IdxMismatch(st, idx) == st.cur # idx

\* Mutation of SeekToMark: the call is made but the link is not rewound
SeekToMark_NoRewind(st, m) == Log(st, "SeekToMark", m)

\* WSSeekToMark(link, mark, 0)
SeekToMark(st, m) == Log([st EXCEPT !.pos = m], "SeekToMark", m)

(***************************************************************************)
(* mathematica::param_reader<T>::try_read, one operator per atomic T       *)
(***************************************************************************)
\* WSGetSymbol at m returns 0: the next token is no symbol, or the link has
\* failed since the last call (st.fault)
GetSymbolFails(st, m) == st.fault \/ Tok(m).t # "SYM"

\* Mutation of MTryReadBool: the link is rewound to the mark on every path
MTryReadBool_SeekAlways(idx, getData, st) ==
    IF IdxMismatch(st, idx) THEN Throw(st, "ProtocolError")
    ELSE
    LET m == st.pos
        s1 == Log(st, "CreateMark", m)
        s2 == Log(s1, "GetSymbol", m)
    IN  IF GetSymbolFails(st, m)
        THEN Res(Log(Log(s2, "ClearError", m), "DestroyMark", m), FALSE, NoVal)
        ELSE
        LET sym == Tok(m).s
            success == sym \in {"True", "False"}
            val == V("bool", IF sym = "True" THEN 1 ELSE 0, "", 0, <<>>)
            s3 == Log([s2 EXCEPT !.pos = m + 1], "ReleaseSymbol", m)
            s4 == IF success /\ getData THEN [s3 EXCEPT !.cur = @ + 1] ELSE s3
        IN  Res(Log(SeekToMark(s4, m), "DestroyMark", m), success, val)

\* param_reader<bool>::try_read
MTryReadBool(idx, getData, st) ==
    IF IdxMismatch(st, idx) THEN Throw(st, "ProtocolError")
    ELSE
    LET m == st.pos
        s1 == Log(st, "CreateMark", m)
        s2 == Log(s1, "GetSymbol", m)
    IN  IF GetSymbolFails(st, m)
        THEN Res(Log(Log(s2, "ClearError", m), "DestroyMark", m), FALSE, NoVal)
        ELSE
        LET sym == Tok(m).s
            success == sym \in {"True", "False"}
            val == V("bool", IF sym = "True" THEN 1 ELSE 0, "", 0, <<>>)
            s3 == Log([s2 EXCEPT !.pos = m + 1], "ReleaseSymbol", m)
            s4 == IF success /\ getData THEN [s3 EXCEPT !.cur = @ + 1] ELSE s3
            s5 == IF ~success \/ ~getData THEN SeekToMark(s4, m) ELSE s4
        IN  Res(Log(s5, "DestroyMark", m), success, val)

(***************************************************************************)
(* mathematica_unescape.  A string is the sequence of its character codes; *)
(* source[i] for i = size() is the terminating 0.  The codes used are      *)
(* 92 backslash, 48..55 the octal digits, 110 n, 114 r, 116 t, and 10, 13, *)
(* 9 for the line feed, carriage return and tab the escapes stand for.     *)
(***************************************************************************)
CharAt(source, i) == IF i <= Len(source) THEN source[i] ELSE 0

\* the for loop from index i on (1-based), in the given state
RECURSIVE UnescapeFrom(_, _, _, _, _)
UnescapeFrom(source, i, state, cnum, unescaped) ==
    IF i > Len(source) + 1 THEN unescaped
    ELSE
    LET c == CharAt(source, i)
    IN  CASE state = "Standard" ->
               IF c = 92 THEN UnescapeFrom(source, i + 1, "ReadingEscape", 0, unescaped)
               ELSE IF c # 0
               THEN UnescapeFrom(source, i + 1, "Standard", cnum, Append(unescaped, c))
               ELSE UnescapeFrom(source, i + 1, "Standard", cnum, unescaped)
          [] state = "ReadingEscape" ->
               IF c = 48
               THEN UnescapeFrom(source, i + 1, "ReadingOctalEscape", cnum, unescaped)
               ELSE IF c = 110
               THEN UnescapeFrom(source, i + 1, "Standard", cnum, Append(unescaped, 10))
               ELSE IF c = 114
               THEN UnescapeFrom(source, i + 1, "Standard", cnum, Append(unescaped, 13))
               ELSE IF c = 116
               THEN UnescapeFrom(source, i + 1, "Standard", cnum, Append(unescaped, 9))
               ELSE UnescapeFrom(source, i + 1, "Standard", cnum,
                                 Append(Append(unescaped, 92), c))
          [] state = "ReadingOctalEscape" ->
               IF c >= 48 /\ c <= 55
               THEN UnescapeFrom(source, i + 1, "ReadingOctalEscape",
                                 cnum * 8 + (c - 48), unescaped)
               ELSE UnescapeFrom(source, i, "Standard", cnum,
                                 Append(unescaped, cnum % 256))

\* Mutation of MathematicaUnescape: no escape is evaluated
MathematicaUnescape_KeepEscapes(source) == source

MathematicaUnescape(source) == UnescapeFrom(source, 1, "Standard", 0, <<>>)

\* Integers of the link are 64 bits wide.  One that the model's arithmetic
\* holds is kept as a number; any other as its four 16-bit digits, most
\* significant first, in two's complement, marked "digits".  An unsigned int
\* is a number from 0 up, or its two 16-bit digits marked "digits".
\* Mutation of ToUnsigned: the cast keeps the low 16 bits only
ToUnsigned_Low16(tok) == <<0, tok.n[4]>>

\* static_cast<unsigned int>(paramValue): the low 32 bits of the wsint64
ToUnsigned(tok) ==
    IF tok.s = "digits" THEN <<tok.n[3], tok.n[4]>>
    ELSE IF tok.n >= 0 THEN tok.n
    ELSE <<(tok.n \div 65536) % 65536, tok.n % 65536>>

\* the unsigned int read is kept as digits: the integer was, or is negative
DigitsMark(tok) == IF tok.s = "digits" \/ tok.n < 0 THEN "digits" ELSE ""

\* the value a scalar reader returns for the token it got: the integer or
\* real as it is, the wsint64 cast to unsigned int, the string after
\* mathematica_unescape
Decoded(kind, tok) ==
    V(kind, IF kind = "uint" THEN ToUnsigned(tok) ELSE tok.n,
      IF kind = "string" THEN MathematicaUnescape(tok.s)
      ELSE IF kind = "uint" THEN DigitsMark(tok) ELSE tok.s, 0, <<>>)

\* Mutation of MTryReadScalar: the type of the next token is asked for before
\* the index is checked
MTryReadScalar_ProbeFirst(kind, getPrim, ty, idx, getData, st) ==
    LET s0 == Log(st, "GetType", st.pos)
    IN  IF IdxMismatch(s0, idx) THEN Throw(s0, "ProtocolError")
        ELSE IF Tok(st.pos).t # ty
        THEN Res(Log(s0, "ClearError", st.pos), FALSE, NoVal)
        ELSE IF getData
        THEN Res([Log(s0, getPrim, st.pos) EXCEPT !.cur = @ + 1, !.pos = @ + 1], TRUE,
                 Decoded(kind, Tok(st.pos)))
        ELSE Res(s0, TRUE, NoVal)

\* int, unsigned int, float and string share one body up to the primitive
MTryReadScalar(kind, getPrim, ty, idx, getData, st) ==
    IF IdxMismatch(st, idx) THEN Throw(st, "ProtocolError")
    ELSE
    IF getData
    THEN LET s1 == Log(st, getPrim, st.pos)
         IN  IF Tok(st.pos).t # ty
             THEN Res(Log(s1, "ClearError", st.pos), FALSE, NoVal)
             ELSE Res([s1 EXCEPT !.cur = @ + 1, !.pos = @ + 1], TRUE,
                      Decoded(kind, Tok(st.pos)))
    ELSE Res(Log(st, "GetType", st.pos), Tok(st.pos).t = ty, NoVal)

MTryReadInt(idx, getData, st) ==
    MTryReadScalar("int", "GetInteger32", "INT", idx, getData, st)

MTryReadUInt(idx, getData, st) ==
    MTryReadScalar("uint", "GetInteger64", "INT", idx, getData, st)

MTryReadFloat(idx, getData, st) ==
    MTryReadScalar("float", "GetReal32", "REAL", idx, getData, st)

MTryReadString(idx, getData, st) ==
    MTryReadScalar("string", "GetString", "STR", idx, getData, st)

\* Mutation of MTryReadArray: the type test returns without releasing the list
MTryReadArray_NoRelease(idx, getData, st) ==
    IF IdxMismatch(st, idx) THEN Throw(st, "ProtocolError")
    ELSE
    LET m == st.pos
        s1 == Log(Log(st, "CreateMark", m), "GetReal32List", m)
    IN  IF ~IsRealList(m)
        THEN Res(Log(Log(s1, "ClearError", m), "DestroyMark", m), FALSE, NoVal)
        ELSE
        LET s2 == [s1 EXCEPT !.pos = m + 1 + Tok(m).n]
        IN  IF getData
            THEN Res(Log(Log([s2 EXCEPT !.cur = @ + 1], "MakeArray", m), "DestroyMark", m),
                     TRUE, V("array", Tok(m).n, "", 0, <<>>))
            ELSE Res(Log(SeekToMark(s2, m), "DestroyMark", m), TRUE, NoVal)

\* param_reader<std::shared_ptr<basic_array<float>>>::try_read
MTryReadArray(idx, getData, st) ==
    IF IdxMismatch(st, idx) THEN Throw(st, "ProtocolError")
    ELSE
    LET m == st.pos
        s1 == Log(Log(st, "CreateMark", m), "GetReal32List", m)
    IN  IF ~IsRealList(m)
        THEN Res(Log(Log(s1, "ClearError", m), "DestroyMark", m), FALSE, NoVal)
        ELSE
        LET s2 == [s1 EXCEPT !.pos = m + 1 + Tok(m).n]
        IN  IF getData
            THEN Res(Log(Log([s2 EXCEPT !.cur = @ + 1], "MakeArray", m), "DestroyMark", m),
                     TRUE, V("array", Tok(m).n, "", 0, <<>>))
            ELSE Res(Log(SeekToMark(Log(s2, "ReleaseReal32List", m), m), "DestroyMark", m),
                     TRUE, NoVal)

MTryReadMatrix(idx, getData, st) ==
    IF IdxMismatch(st, idx) THEN Throw(st, "ProtocolError")
    ELSE
    LET m == st.pos
        s1 == Log(Log(st, "CreateMark", m), "GetReal32Array", m)
    IN  IF ~IsRealArray(m)
        THEN Res(Log(Log(s1, "ClearError", m), "DestroyMark", m), FALSE, NoVal)
        ELSE
        LET s2 == [s1 EXCEPT !.pos = m + RealArrayLen(m)]
        IN  IF getData
            THEN Res(Log(Log([s2 EXCEPT !.cur = @ + 1], "MakeMatrix", m), "DestroyMark", m),
                     TRUE, V("matrix", ArrayDepth(m), "", 0, <<>>))
            ELSE Res(Log(SeekToMark(Log(s2, "ReleaseReal32Array", m), m), "DestroyMark", m),
                     TRUE, NoVal)

MTryRead(k, idx, getData, st) ==
    CASE k = "bool" -> MTryReadBool(idx, getData, st)
      [] k = "int" -> MTryReadInt(idx, getData, st)
      [] k = "uint" -> MTryReadUInt(idx, getData, st)
      [] k = "float" -> MTryReadFloat(idx, getData, st)
      [] k = "string" -> MTryReadString(idx, getData, st)
      [] k = "array" -> MTryReadArray(idx, getData, st)
      [] k = "matrix" -> MTryReadMatrix(idx, getData, st)

\* Mutation of MReadAtomic: the cursor moves on even when the type check fails
MReadAtomic_AdvanceOnFail(k, idx, st) ==
    LET r == MTryRead(k, idx, TRUE, st)
    IN  IF r.err # "" THEN r
        ELSE IF ~r.ok THEN Throw([r.st EXCEPT !.cur = @ + 1], "TypeMismatchError")
        ELSE r

\* Mutation of MReadAtomic: a failed type check yields a default value
MReadAtomic_DefaultOnFail(k, idx, st) ==
    LET r == MTryRead(k, idx, TRUE, st)
    IN  IF r.err # "" THEN r
        ELSE IF ~r.ok THEN Res([r.st EXCEPT !.cur = @ + 1], TRUE, V(k, 0, "", 0, <<>>))
        ELSE r

\* param_reader<T0>::operator(): try_read with getData, throw on failure
MReadAtomic(k, idx, st) ==
    LET r == MTryRead(k, idx, TRUE, st)
    IN  IF r.err # "" THEN r
        ELSE IF ~r.ok THEN Throw(r.st, "TypeMismatchError")
        ELSE r

\* Mutation of MIsType: a mismatch is raised like in a data read
MIsType_Raising(k, idx, st) ==
    LET r == MTryRead(k, idx, FALSE, st)
    IN  IF r.err = "" /\ ~r.ok THEN Throw(r.st, "TypeMismatchError") ELSE r

\* param_reader<T0>::is_type: try_read without getData
MIsType(k, idx, st) == MTryRead(k, idx, FALSE, st)

(***************************************************************************)
(* mathematica: composite readers and get_param                            *)
(***************************************************************************)
RECURSIVE MGetParam(_, _, _)
RECURSIVE MTupleImpl(_, _, _, _, _)
RECURSIVE MVariantReader(_, _, _, _)

\* Mutation of IsNullSymbol: every symbol is taken for the absence sentinel
IsNullSymbol_Any(m) == TRUE

\* strcmp(symbol, "Null") == 0 on the symbol just read at m
IsNullSymbol(m) == Tok(m).s = "Null"

\* param_reader<boost::optional<T>>::operator()
MReadOptional(T, idx, st) ==
    IF IdxMismatch(st, idx) THEN Throw(st, "ProtocolError")
    ELSE
    LET s0 == Log(st, "GetType", st.pos)
    IN  IF Tok(st.pos).t = "SYM"
        THEN LET m == st.pos
                 s1 == Log(Log(s0, "CreateMark", m), "GetSymbol", m)
                 s2 == [s1 EXCEPT !.pos = m + 1]
             IN  IF GetSymbolFails(st, m)
                 THEN \* WSClearError, WSDestroyMark(mark), throw; unwinding
                      \* then runs the deleter of markPtr on the same mark
                      Throw(Log(Log(Log(s1, "ClearError", m), "DestroyMark", m),
                                "DestroyMark", m),
                            "IncoherentStateError")
                 ELSE
                 IF IsNullSymbol(m)
                 THEN Res(Log(Log([s2 EXCEPT !.cur = @ + 1], "ReleaseSymbol", m),
                              "DestroyMark", m),
                          TRUE, V("optional", 0, "", 0, <<>>))
                 ELSE LET s3 == SeekToMark(s2, m)
                          r == MGetParam(T, idx, s3)
                          s4 == Log(Log(r.st, "ReleaseSymbol", m), "DestroyMark", m)
                      IN  IF r.err # "" THEN Throw(s4, r.err)
                          ELSE Res(s4, TRUE, V("optional", 1, "", 0, <<r.val>>))
        ELSE LET r == MGetParam(T, idx, s0)
             IN  IF r.err # "" THEN r
                 ELSE Res(r.st, TRUE, V("optional", 1, "", 0, <<r.val>>))

\* Mutation of ElemIdx: every element is requested at the index of the tuple
ElemIdx_First(paramIdx, I) == paramIdx

\* paramIdx + I
ElemIdx(paramIdx, I) == paramIdx + I

\* get_tuple_param_impl: get_param<Types>(paramIdx + I, paramName)... in order
MTupleImpl(Ts, i, idx, st, acc) ==
    IF i > Len(Ts) THEN Res(st, TRUE, V("tuple", 0, "", 0, acc))
    ELSE LET r == MGetParam(Ts[i], ElemIdx(idx, i - 1), st)
         IN  IF r.err # "" THEN r
             ELSE MTupleImpl(Ts, i + 1, idx, r.st, Append(acc, r.val))

\* Mutation of ArityMismatch: only a list that is too short is rejected
ArityMismatch_TooShort(nargs, n) == nargs < n

\* if (nargs != sizeof...(Types))
ArityMismatch(nargs, n) == nargs # n

\* the exception of the arity check; its message reports "got" and "expected"
ThrowArity(st, got, expected) ==
    [st |-> st, err |-> "ArityError", ok |-> FALSE,
     val |-> V("arity", got, "", expected, <<>>)]

\* Mutation of TupleNextIdx: the cursor stays where the element reads left it
TupleNextIdx_KeepElems(tupleIdx, elemCur) == elemCur

\* w_.current_param_idx_ = tupleIdx + 1, whatever the element reads made of it
TupleNextIdx(tupleIdx, elemCur) == tupleIdx + 1

\* param_reader<std::tuple<Types...>>::operator()
MReadTuple(Ts, idx, st) ==
    IF IdxMismatch(st, idx) THEN Throw(st, "ProtocolError")
    ELSE
    LET s1 == Log(st, "CheckFunction", st.pos)
    IN  IF ~(Tok(st.pos).t = "FUNC" /\ Tok(st.pos).s = "List")
        THEN Throw(Log(s1, "ClearError", st.pos), "ExpectedListError")
        ELSE
        LET s2 == [s1 EXCEPT !.pos = @ + 1]
        IN  IF ArityMismatch(Tok(st.pos).n, Len(Ts))
            THEN ThrowArity(s2, Tok(st.pos).n, Len(Ts))
            ELSE
            LET tupleIdx == s2.cur
                r == MTupleImpl(Ts, 1, idx, s2, <<>>)
            IN  IF r.err # "" THEN r
                ELSE Res([r.st EXCEPT !.cur = TupleNextIdx(tupleIdx, r.st.cur)],
                         TRUE, r.val)

\* variant_reader<T0, Tn...>: alternatives i..Len(Ts) remain
MVariantReader(Ts, i, idx, st) ==
    LET t == MIsType(Ts[i].k, idx, st)
    IN  IF t.err # "" THEN t
        ELSE IF t.ok
        THEN LET r == MReadAtomic(Ts[i].k, idx, t.st)
             IN  IF r.err # "" THEN r
                 ELSE Res(r.st, TRUE, V("variant", 0, "", i, <<r.val>>))
        ELSE IF i = Len(Ts) THEN Throw(t.st, "NoMatchingAlternativeError")
        ELSE MVariantReader(Ts, i + 1, idx, t.st)

\* param_reader<boost::variant<Types...>>::operator()
MReadVariant(Ts, idx, st) == MVariantReader(Ts, 1, idx, st)

\* mathematica::get_param<T>: dispatch on the shape
MGetParam(sh, idx, st) ==
    CASE sh.k = "optional" -> MReadOptional(sh.sub[1], idx, st)
      [] sh.k = "tuple" -> MReadTuple(sh.sub, idx, st)
      [] sh.k = "variant" -> MReadVariant(sh.sub, idx, st)
      [] OTHER -> MReadAtomic(sh.k, idx, st)

(***************************************************************************)
(* octave: the argument list and the readers.  Reads are random access     *)
(* and change no wrapper state, so a reader yields only err, ok and val.   *)
(***************************************************************************)
OV(t, n, nd) == [t |-> t, n |-> n, nd |-> nd]

\* octave_value predicates used by the readers
IsBoolType(v) == v.t = "bool"
IsScalarType(v) == v.t = "scalar"
IsNumericType(v) == v.t \in {"scalar", "ndarray"}
IsString(v) == v.t = "string"
\* array_value().dims().length()
DimsLength(v) == v.nd

OBool == OV("bool", 1, 2)
OSix == OV("scalar", 6, 2)
OSeven == OV("scalar", 7, 2)
OStr == OV("string", 0, 2)

\* the argument lists the interpreter may call with
ArgLists ==
    { <<>>,
      <<OSix>>, <<OBool>>, <<OStr>>,
      <<OSix, OSeven>>, <<OStr, OSeven>>, <<OSix, OStr>>, <<OBool, OSix>>,
      <<OSix, OSeven, OSix>>, <<OSix, OSeven, OSix, OSeven>>,
      <<OV("ndarray", 0, 2)>>, <<OV("ndarray", 0, 3)>>, <<OV("ndarray", 0, 4)>>,
      <<OV("ndarray", 0, 3), OSix>> }

ORes(ok, val) == [err |-> "", ok |-> ok, val |-> val]
OThrow(e) == [err |-> e, ok |-> FALSE, val |-> NoVal]

\* Mutation of ONotEnough: the results written so far count against the index
ONotEnough_AfterWrites(idx) == Len(args) <= idx + Len(result)

\* octave::param_reader_base::check_parameter_idx fails
ONotEnough(idx) == Len(args) <= idx

\* (*w_.current_args_)(paramIdx)
Arg(idx) == args[idx + 1]

OTryReadBool(idx, getData) ==
    IF ONotEnough(idx) THEN OThrow("ProtocolError")
    ELSE IF ~IsBoolType(Arg(idx)) THEN ORes(FALSE, NoVal)
    ELSE ORes(TRUE, V("bool", Arg(idx).n, "", 0, <<>>))

OTryReadInt(idx, getData) ==
    IF ONotEnough(idx) THEN OThrow("ProtocolError")
    ELSE IF ~IsScalarType(Arg(idx)) THEN ORes(FALSE, NoVal)
    ELSE ORes(TRUE, V("int", Arg(idx).n, "", 0, <<>>))

OTryReadUInt(idx, getData) ==
    IF ONotEnough(idx) THEN OThrow("ProtocolError")
    ELSE IF ~IsScalarType(Arg(idx)) THEN ORes(FALSE, NoVal)
    ELSE ORes(TRUE, V("uint", Arg(idx).n, "", 0, <<>>))

OTryReadFloat(idx, getData) ==
    IF ONotEnough(idx) THEN OThrow("ProtocolError")
    ELSE IF ~IsNumericType(Arg(idx)) THEN ORes(FALSE, NoVal)
    ELSE ORes(TRUE, V("float", Arg(idx).n, "", 0, <<>>))

OTryReadString(idx, getData) ==
    IF ONotEnough(idx) THEN OThrow("ProtocolError")
    ELSE IF ~IsString(Arg(idx)) THEN ORes(FALSE, NoVal)
    ELSE ORes(TRUE, V("string", 0, <<115>>, 0, <<>>))

OTryReadArray(idx, getData) ==
    IF ONotEnough(idx) THEN OThrow("ProtocolError")
    ELSE IF DimsLength(Arg(idx)) # 2 THEN ORes(FALSE, NoVal)
    ELSE IF ~getData THEN ORes(TRUE, NoVal)
    ELSE ORes(TRUE, V("array", 2, "", 0, <<>>))

OTryReadMatrix(idx, getData) ==
    LET d == DimsLength(Arg(idx))
    IN  IF ONotEnough(idx) THEN OThrow("ProtocolError")
        ELSE IF d <= 1 \/ d > 3 THEN ORes(FALSE, NoVal)
        ELSE IF ~getData THEN ORes(TRUE, NoVal)
        ELSE ORes(TRUE, V("matrix", d, "", 0, <<>>))

OTryRead(k, idx, getData) ==
    CASE k = "bool" -> OTryReadBool(idx, getData)
      [] k = "int" -> OTryReadInt(idx, getData)
      [] k = "uint" -> OTryReadUInt(idx, getData)
      [] k = "float" -> OTryReadFloat(idx, getData)
      [] k = "string" -> OTryReadString(idx, getData)
      [] k = "array" -> OTryReadArray(idx, getData)
      [] k = "matrix" -> OTryReadMatrix(idx, getData)

\* param_reader<T0>::operator()
OReadAtomic(k, idx) ==
    LET r == OTryRead(k, idx, TRUE)
    IN  IF r.err # "" THEN r
        ELSE IF ~r.ok THEN OThrow("TypeMismatchError")
        ELSE r

\* param_reader<T0>::is_type
OIsType(k, idx) == OTryRead(k, idx, FALSE)

RECURSIVE OGetParam(_, _)
RECURSIVE OTupleImpl(_, _, _, _)
RECURSIVE OVariantReader(_, _, _)

\* Mutation of OAbsent: the index equal to the argument count is not absent
OAbsent_Beyond(idx) == idx > Len(args)

\* the absence test of param_reader<boost::optional<T>>
OAbsent(idx) == idx >= Len(args)

\* param_reader<boost::optional<T>>::operator()
OReadOptional(T, idx) ==
    IF OAbsent(idx) THEN ORes(TRUE, V("optional", 0, "", 0, <<>>))
    ELSE LET r == OGetParam(T, idx)
         IN  IF r.err # "" THEN r
             ELSE ORes(TRUE, V("optional", 1, "", 0, <<r.val>>))

OTupleImpl(Ts, i, idx, acc) ==
    IF i > Len(Ts) THEN ORes(TRUE, V("tuple", 0, "", 0, acc))
    ELSE LET r == OGetParam(Ts[i], idx + (i - 1))
         IN  IF r.err # "" THEN r
             ELSE OTupleImpl(Ts, i + 1, idx, Append(acc, r.val))

\* the exception of the length check; its message reports the tuple size and
\* the index, not the number of arguments supplied
OThrowNotEnough(size, idx) ==
    [err |-> "ArityError", ok |-> FALSE, val |-> V("notenough", idx, "", size, <<>>)]

\* param_reader<std::tuple<Types...>>::operator()
OReadTuple(Ts, idx) ==
    IF ONotEnough(idx) THEN OThrow("ProtocolError")
    ELSE IF idx + Len(Ts) > Len(args) THEN OThrowNotEnough(Len(Ts), idx)
    ELSE OTupleImpl(Ts, 1, idx, <<>>)

\* OMWrapper<OMWT_OCTAVE>::GetParam<Types...> for more than one type, the
\* tuple read of the wrapper class declared in om_wrapper.h:
\* if (firstParamIdx + sizeof...(Types) >= currentArgs->length()) throw
OMWReadTuple(Ts, idx) ==
    IF ONotEnough(idx) THEN OThrow("ProtocolError")
    ELSE IF idx + Len(Ts) >= Len(args) THEN OThrowNotEnough(Len(Ts), idx)
    ELSE OTupleImpl(Ts, 1, idx, <<>>)

\* Mutation of OVariantReader: a later alternative that matches is preferred
OVariantReader_LastMatch(Ts, i, idx) ==
    LET t == OIsType(Ts[i].k, idx)
        later == IF i < Len(Ts) THEN OVariantReader(Ts, i + 1, idx)
                 ELSE OThrow("NoMatchingAlternativeError")
    IN  IF t.err # "" THEN t
        ELSE IF later.err = "" THEN later
        ELSE IF t.ok
        THEN LET r == OReadAtomic(Ts[i].k, idx)
             IN  IF r.err # "" THEN r
                 ELSE ORes(TRUE, V("variant", 0, "", i, <<r.val>>))
        ELSE later

\* variant_reader<T0, Tn...>: alternatives i..Len(Ts) remain
OVariantReader(Ts, i, idx) ==
    LET t == OIsType(Ts[i].k, idx)
    IN  IF t.err # "" THEN t
        ELSE IF t.ok
        THEN LET r == OReadAtomic(Ts[i].k, idx)
             IN  IF r.err # "" THEN r
                 ELSE ORes(TRUE, V("variant", 0, "", i, <<r.val>>))
        ELSE IF i = Len(Ts) THEN OThrow("NoMatchingAlternativeError")
        ELSE OVariantReader(Ts, i + 1, idx)

OReadVariant(Ts, idx) == OVariantReader(Ts, 1, idx)

\* octave::get_param<T>
OGetParam(sh, idx) ==
    CASE sh.k = "optional" -> OReadOptional(sh.sub[1], idx)
      [] sh.k = "tuple" -> OReadTuple(sh.sub, idx)
      [] sh.k = "variant" -> OReadVariant(sh.sub, idx)
      [] OTHER -> OReadAtomic(sh.k, idx)

(***************************************************************************)
(* The shapes, indices and results the user function body may use          *)
(***************************************************************************)
Shapes ==
    AtomShapes \cup
    { Opt(Atom("int")), Opt(Atom("bool")),
      Tup(<<Atom("int"), Atom("int")>>),
      Tup(<<Tup(<<Atom("int"), Atom("int")>>), Atom("int")>>),
      Opt(Tup(<<Atom("int"), Atom("int")>>)),
      Var(<<Atom("int"), Atom("uint")>>),
      Var(<<Atom("bool"), Atom("string")>>),
      Var(<<Atom("array"), Atom("matrix")>>),
      Var(<<Atom("matrix"), Atom("array"), Atom("float")>>) }

\* element types of get_params<Types...>: one type, or a tuple of them
ListTypes == { <<Atom("int")>>, <<Atom("int"), Atom("int")>> }

IdxRange == 0..MaxIdx

\* argument packs of write_result
WriteArgs ==
    { <<V("int", 42, "", 0, <<>>)>>,
      <<V("int", 42, "", 0, <<>>), V("string", 0, <<115>>, 0, <<>>)>> }

NoThrown == [kind |-> "", err |-> ""]
NoLast ==
    [op |-> "none", sh |-> Atom("int"), idx |-> 0, cur0 |-> 0, pos0 |-> 0,
     err |-> "", val |-> NoVal, ev |-> <<>>]

\* exception classes a user function body can raise
ThrowKinds == {"runtime_error", "exception", "other"}

(***************************************************************************)
(* Output on the WSTP link                                                 *)
(***************************************************************************)
Ctl(s) == Tk("CTL", s, 0)

\* Mutation of MWriteMatrix: the Image head is put after the array
MWriteMatrix_ImageLast(v) ==
    <<Tk("REAL32ARRAY", "", v.n)>>
    \o (IF matricesAsImages THEN <<Tk("FUNC", "Image", 1)>> ELSE <<>>)

\* result_writer<std::shared_ptr<basic_matrix<float>>>::operator():
\* WSPutReal32Array(link, data, dims, NULL, depth), under an Image head if
\* the flag of the wrapper is set
MWriteMatrix(v) ==
    (IF matricesAsImages THEN <<Tk("FUNC", "Image", 1)>> ELSE <<>>)
    \o <<Tk("REAL32ARRAY", "", v.n)>>

\* result_writer<T0>::operator() for the atomic result types
\* WSPutInteger64(w_.link, static_cast<wsint64>(result)): the unsigned int
\* extended with zero bits
UIntToken(v) ==
    IF v.s = "digits" THEN Tk("INT", "digits", <<0, 0, v.n[1], v.n[2]>>)
    ELSE Tk("INT", "", v.n)

MWriteAtomic(v) ==
    CASE v.k = "int" -> <<Tk("INT", "", v.n)>>
      [] v.k = "uint" -> <<UIntToken(v)>>
      [] v.k = "float" -> <<Tk("REAL", "", v.n)>>
      [] v.k = "string" -> <<Tk("STR", v.s, 0)>>
      [] v.k = "matrix" -> MWriteMatrix(v)

RECURSIVE MWriteEach(_)
MWriteEach(vs) == IF vs = <<>> THEN <<>> ELSE MWriteAtomic(Head(vs)) \o MWriteEach(Tail(vs))

\* result_writer<T0, Types...>::operator(): the List head, then each component
MWriteMulti(vs) == <<Tk("FUNC", "List", Len(vs))>> \o MWriteEach(vs)

\* Mutation of SendFailureTokens: the sentinel is put before the message packet
SendFailureTokens_SentinelFirst(msg) ==
    << Ctl("NewPacket"), Tk("SYM", "$Failed", 0),
       Tk("FUNC", "EvaluatePacket", 1), Tk("FUNC", "Message", 2),
       Tk("FUNC", "MessageName", 2), Tk("SYM", "OMW", 0), Tk("STR", "err", 0),
       Tk("STR", msg, 0),
       Ctl("Flush"), Ctl("NextPacket"), Ctl("NewPacket") >>

\* mathematica::send_failure
SendFailureTokens(msg) ==
    << Ctl("NewPacket"),
       Tk("FUNC", "EvaluatePacket", 1), Tk("FUNC", "Message", 2),
       Tk("FUNC", "MessageName", 2), Tk("SYM", "OMW", 0), Tk("STR", "err", 0),
       Tk("STR", msg, 0),
       Ctl("Flush"), Ctl("NextPacket"), Ctl("NewPacket"),
       Tk("SYM", "$Failed", 0) >>

(***************************************************************************)
(* Initial state: the wrapper object after construction                    *)
(***************************************************************************)
InitSession ==
    /\ host \in {"M", "O"}
    /\ pc = "Idle"
    /\ done = "none"
    /\ nwrites = 0
    /\ cur = Closed
    /\ hasResult \in (IF host = "M" THEN BOOLEAN ELSE {FALSE})
    /\ link = <<>>
    /\ pos = 1
    /\ out = <<>>
    /\ args = <<>>
    /\ result = <<>>
    /\ rstack = <<>>
    /\ returned = <<>>
    /\ ostdout = <<>>
    /\ thrown = NoThrown
    /\ last = NoLast
    /\ locals = <<>>
    /\ handles = <<>>

\* octave::octave: the path left in autoload_path_ for a symbol that is
\* null, that lies in a loaded library, or that dladdr cannot match to one
\* ("null", "loaded", "unmatched").  dladdr's return value
\* is not looked at: when it matched nothing, dl_info.dli_fname was never
\* set and the string is built from whatever the pointer held.
PathsOf(sym) ==
    CASE sym = "null" -> {""}
      [] sym = "loaded" -> {"lib.oct"}
      [] sym = "unmatched" -> {"", "?"}

\* the constructors: wrapper_base(userInitializer), then octave(sym, ...)
Construct(sym, initializer) ==
    /\ matricesAsImages = FALSE
    /\ userInitializer = initializer
    /\ initLog = <<>>
    /\ autoloadPath \in (IF host = "O" THEN PathsOf(sym) ELSE {""})
    /\ autoloads = {}

\* the wrapper objects of the test library: no initializer, and on octave
\* the address of one of the library's own functions
Init == InitSession /\ Construct("loaded", FALSE)

(***************************************************************************)
(* run_function, first part: reset the session and enter the user body     *)
(***************************************************************************)
Invoke ==
    /\ pc = "Idle"
    /\ pc' = "Active"
    /\ nwrites' = 0
    /\ last' = NoLast
    /\ thrown' = NoThrown
    /\ locals' = <<>>
    /\ IF host = "M"
       THEN /\ cur' = 0
            /\ hasResult' = FALSE
            /\ link' \in Wires
            /\ pos' = 1
            /\ out' = <<>>
            /\ UNCHANGED <<args, result, rstack, returned, ostdout>>
       ELSE /\ args' \in ArgLists
            /\ result' = <<>>
            /\ returned' = <<>>
            /\ ostdout' = <<>>
            /\ UNCHANGED <<cur, hasResult, link, pos, out, rstack>>
    /\ UNCHANGED <<host, done>>
    /\ UNCHANGED handles
    /\ UNCHANGED wvars

\* the part of a user step common to both hosts
Observe(op, sh, idx, err, val, ev) ==
    /\ last' = [op |-> op, sh |-> sh, idx |-> idx, cur0 |-> cur, pos0 |-> pos,
                err |-> err, val |-> val, ev |-> ev]
    /\ pc' = IF err = "" THEN "Active" ELSE "Thrown"
    /\ thrown' = IF err = "" THEN NoThrown ELSE [kind |-> "runtime_error", err |-> err]

\* w.get_param<sh>(idx, name) on the wrapper of the current host
ReadParam(sh, idx) ==
    /\ IF host = "M"
       THEN \E r \in {MGetParam(sh, idx, [cur |-> cur, pos |-> pos, ev |-> <<>>, fault |-> FALSE])} :
               /\ cur' = r.st.cur
               /\ pos' = r.st.pos
               /\ Observe("get_param", sh, idx, r.err, r.val, r.st.ev)
       ELSE \E r \in {OGetParam(sh, idx)} :
               /\ Observe("get_param", sh, idx, r.err, r.val, <<>>)
               /\ UNCHANGED <<cur, pos>>
    /\ UNCHANGED <<host, done, nwrites, hasResult, link, out, args, result, rstack,
                   returned, ostdout>>
    /\ UNCHANGED wvars

\* the user body calls w.get_param<sh>(idx, name)
GetParam ==
    /\ pc = "Active"
    /\ \E sh \in Shapes, idx \in IdxRange : ReadParam(sh, idx)
    /\ UNCHANGED locals
    /\ UNCHANGED handles

\* 2^64 as far as the model's integers allow: size_t arithmetic wraps here
SizeMod == 1073741824

\* element type read by the iterator: std::tuple<Types...> or the single type
ElemShape(Ts) == IF Len(Ts) > 1 THEN Tup(Ts) ELSE Ts[1]

\* mathematica::param_list_reader constructor
MListReader(Ts, first, st) ==
    IF st.cur # first THEN Throw(st, "ProtocolError")
    ELSE LET s1 == Log(st, "CheckFunction", st.pos)
         IN  IF ~(Tok(st.pos).t = "FUNC" /\ Tok(st.pos).s = "List")
             THEN Throw(Log(s1, "ClearError", st.pos), "InvalidListHeadError")
             ELSE Res([s1 EXCEPT !.pos = @ + 1], TRUE,
                      V("list", Tok(st.pos).n, "", 0, <<>>))

\* octavew::param_list_reader constructor: count_
OListCount(Ts, first) == ((Len(args) - first) % SizeMod) \div Len(Ts)

\* basic_param_list_reader::iterator::operator*: the index it asks get_param for
DerefIdx(w, first, k) == w * k + first

\* the iterator positions the user body dereferences, in order: none, a
\* range-for over the whole list, or the first position twice
DerefSeqs(count) ==
    { q \in {<<>>, <<0>>, <<0, 1>>, <<0, 1, 2>>, <<0, 0>>} :
        /\ \A i \in 1..Len(q) : q[i] < count }

\* "list" when ks is the whole list in order (a range-for that ran to the end)
ListKind(ks, count) ==
    IF Len(ks) = count /\ \A i \in 1..Len(ks) : ks[i] = i - 1 THEN "list" ELSE "sublist"

\* one dereference of the user's loop, the i-th of ks; r is the loop so far
MDeref(sh, first, ks, i, r) ==
    IF r.err # "" \/ i > Len(ks) THEN r
    ELSE LET q == MGetParam(sh, DerefIdx(1, first, ks[i]), r.st)
         IN  IF q.err # "" THEN q
             ELSE [q EXCEPT !.val = [r.val EXCEPT !.sub = Append(@, q.val)]]

ODeref(sh, w, first, ks, i, r) ==
    IF r.err # "" \/ i > Len(ks) THEN r
    ELSE LET q == OGetParam(sh, DerefIdx(w, first, ks[i]))
         IN  IF q.err # "" THEN q
             ELSE [q EXCEPT !.val = [r.val EXCEPT !.sub = Append(@, q.val)]]

\* the user body calls w.get_params<Ts...>(first, name) and dereferences
\* iterators of the reader it returns
GetParams ==
    /\ pc = "Active"
    /\ \E Ts \in ListTypes, first \in IdxRange :
          IF host = "M"
          THEN \E c \in {MListReader(Ts, first, [cur |-> cur, pos |-> pos, ev |-> <<>>, fault |-> FALSE])} :
                  IF c.err # ""
                  THEN /\ cur' = c.st.cur
                       /\ pos' = c.st.pos
                       /\ Observe("get_params", ElemShape(Ts), first, c.err, c.val, c.st.ev)
                  ELSE \E ks \in DerefSeqs(c.val.n) :
                       \E r1 \in {MDeref(ElemShape(Ts), first, ks, 1, c)} :
                       \E r2 \in {MDeref(ElemShape(Ts), first, ks, 2, r1)} :
                       \E r \in {MDeref(ElemShape(Ts), first, ks, 3, r2)} :
                          /\ cur' = r.st.cur
                          /\ pos' = r.st.pos
                          /\ Observe("get_params", ElemShape(Ts), first, r.err,
                                     [r.val EXCEPT !.k = ListKind(ks, c.val.n), !.n = c.val.n],
                                     r.st.ev)
          ELSE \E ks \in DerefSeqs(OListCount(Ts, first)) :
               \E r0 \in {ORes(TRUE, V("list", OListCount(Ts, first), "", 0, <<>>))} :
               \E r1 \in {ODeref(ElemShape(Ts), Len(Ts), first, ks, 1, r0)} :
               \E r2 \in {ODeref(ElemShape(Ts), Len(Ts), first, ks, 2, r1)} :
               \E r \in {ODeref(ElemShape(Ts), Len(Ts), first, ks, 3, r2)} :
                  /\ Observe("get_params", ElemShape(Ts), first, r.err,
                             [r.val EXCEPT !.k = ListKind(ks, OListCount(Ts, first)),
                                           !.n = OListCount(Ts, first)],
                             <<>>)
                  /\ UNCHANGED <<cur, pos>>
    /\ UNCHANGED <<host, done, nwrites, hasResult, link, out, args, result, rstack,
                   returned, ostdout, locals>>
    /\ UNCHANGED handles
    /\ UNCHANGED wvars

(***************************************************************************)
(* octave: the result accumulator                                          *)
(***************************************************************************)
\* octave::push_result on [result, rstack]; target 0 is result_ itself
OPushResult(s) ==
    IF s.rstack = <<>> THEN [s EXCEPT !.rstack = <<0>>]
    ELSE [result |-> Append(s.result, <<>>),
          rstack |-> Append(s.rstack, Len(s.result) + 1)]

\* Mutation of OPopResult: the group pushed by the writer is left on the stack
OPopResult_Keep(s) == s

\* octave::pop_result
OPopResult(s) == [s EXCEPT !.rstack = SubSeq(@, 1, Len(@) - 1)]

\* result_writer<T0>::operator(): result().append(v)
OAppendResult(s, v) ==
    IF s.rstack = <<>> \/ s.rstack[Len(s.rstack)] = 0
    THEN [s EXCEPT !.result = Append(@, v)]
    ELSE [s EXCEPT !.result[s.rstack[Len(s.rstack)]] = Append(@, v)]

RECURSIVE OWriteEach(_, _)
OWriteEach(s, vs) ==
    IF vs = <<>> THEN s ELSE OWriteEach(OAppendResult(s, Head(vs)), Tail(vs))

\* octavew::write_result(args...)
OWriteResult(s, vs) ==
    IF Len(vs) = 1 THEN OAppendResult(s, vs[1])
    ELSE OPopResult(OWriteEach(OPushResult(s), vs))

\* mathematica::write_result(args...): what evaluate_result's lambda puts
MWriteResult(vs) == IF Len(vs) = 1 THEN MWriteAtomic(vs[1]) ELSE MWriteMulti(vs)

\* w.write_result(vs...) on the wrapper of the current host
PutResult(vs) ==
    /\ nwrites' = nwrites + 1
    /\ IF host = "M"
       THEN /\ out' = out \o MWriteResult(vs)
            /\ hasResult' = TRUE
            /\ UNCHANGED <<result, rstack>>
       ELSE LET s == OWriteResult([result |-> result, rstack |-> rstack], vs)
            IN  /\ result' = s.result
                /\ rstack' = s.rstack
                /\ UNCHANGED <<out, hasResult>>
    /\ Observe("write", Atom("int"), Len(vs), "", NoVal, <<>>)
    /\ UNCHANGED <<host, done, cur, link, pos, args, returned, ostdout>>
    /\ UNCHANGED wvars

\* the user body calls w.write_result(vs...)
WriteResult ==
    /\ pc = "Active"
    /\ nwrites < MaxWrites
    /\ \E vs \in WriteArgs : PutResult(vs)
    /\ UNCHANGED locals
    /\ UNCHANGED handles

\* the user body raises an exception of its own
UserThrow ==
    /\ pc = "Active"
    /\ \E kind \in ThrowKinds :
          /\ pc' = "Thrown"
          /\ thrown' = [kind |-> kind, err |-> "UserError"]
          /\ last' = [NoLast EXCEPT !.op = "throw", !.cur0 = cur, !.pos0 = pos,
                                    !.err = "UserError"]
    /\ UNCHANGED <<host, done, nwrites, cur, hasResult, link, pos, out, args, result,
                   rstack, returned, ostdout, locals>>
    /\ UNCHANGED handles
    /\ UNCHANGED wvars

(***************************************************************************)
(* run_function, second part: after the user body                          *)
(***************************************************************************)
\* the handler of run_function's try block accepts this exception class
Catches(h, kind) ==
    IF h = "M" THEN kind \in {"runtime_error", "exception"}
    ELSE kind = "runtime_error"

\* Mutation of HandlesAfterRun: the session releases the buffers it decoded
HandlesAfterRun_ReleaseAll(hs) ==
    [h \in DOMAIN hs |->
        [hs[h] EXCEPT !.over = TRUE, !.data = FALSE,
                      !.released = IF hs[h].data THEN @ + 1 ELSE @]]

\* run_function ends without touching any handle: the only change is the
\* record that the session a handle was made in is over
HandlesAfterRun(hs) == [h \in DOMAIN hs |-> [hs[h] EXCEPT !.over = TRUE]]

\* the cursor run_function leaves behind when the function is over
EndOfRun_KeepCursor(c) == c

\* current_param_idx_ = std::numeric_limits<size_t>::max()
EndOfRun(c) == Closed

\* Mutation of PutsNull: the placeholder is sent whatever was written
PutsNull_Always(has_result) == TRUE

\* if (!has_result_) WSPutSymbol(link, "Null")
PutsNull(has_result) == ~has_result

\* the user body returned normally
Return ==
    /\ pc = "Active"
    /\ pc' = "Idle"
    /\ done' = "Completed"
    /\ last' = NoLast
    /\ locals' = <<>>
    /\ handles' = HandlesAfterRun(handles)
    /\ IF host = "M"
       THEN /\ out' = IF PutsNull(hasResult) THEN Append(out, Tk("SYM", "Null", 0))
                      ELSE out
            /\ cur' = EndOfRun(cur)
            /\ UNCHANGED returned
       ELSE /\ returned' = result
            /\ UNCHANGED <<out, cur>>
    /\ UNCHANGED <<host, nwrites, hasResult, link, pos, args, result,
                   rstack, ostdout, thrown>>
    /\ UNCHANGED wvars

\* the catch block: send_failure, then the end of run_function
Catch ==
    /\ pc = "Thrown"
    /\ Catches(host, thrown.kind)
    /\ pc' = "Idle"
    /\ done' = "Failed"
    /\ last' = NoLast
    /\ thrown' = NoThrown
    /\ locals' = <<>>
    /\ handles' = HandlesAfterRun(handles)
    /\ IF host = "M"
       THEN /\ out' = out \o SendFailureTokens(thrown.err)
            /\ hasResult' = TRUE
            /\ cur' = EndOfRun(cur)
            /\ UNCHANGED <<returned, ostdout>>
       ELSE /\ ostdout' = Append(ostdout, thrown.err)
            /\ returned' = <<>>
            /\ UNCHANGED <<out, hasResult, cur>>
    /\ UNCHANGED <<host, nwrites, link, pos, args, result, rstack>>
    /\ UNCHANGED wvars

\* no handler matches: the exception leaves run_function
Propagate ==
    /\ pc = "Thrown"
    /\ ~Catches(host, thrown.kind)
    /\ pc' = "Escaped"
    /\ UNCHANGED <<host, done, nwrites, cur, hasResult, link, pos, out, args,
                   result, rstack, returned, ostdout, thrown, last, locals>>
    /\ UNCHANGED handles
    /\ UNCHANGED wvars

Next ==
    \/ Invoke
    \/ GetParam
    \/ GetParams
    \/ WriteResult
    \/ UserThrow
    \/ Return
    \/ Catch
    \/ Propagate

Spec == Init /\ [][Next]_vars

(***************************************************************************)
(* Matrix results.  The user body writes matrices of depth 2 or 3, and     *)
(* user code sets the matrices_as_images flag of the wrapper inside and    *)
(* outside sessions.                                                       *)
(***************************************************************************)
Matrices == {V("matrix", d, "", 0, <<>>) : d \in {2, 3}}

\* octave: result->dims()[2], the third dimension of the NDArray the writer
\* appends.  dims() has depth() entries, so for a matrix of depth 2 the read
\* is past the end of the vector and yields any value
ThirdDim(m) == IF m.n >= 3 THEN {1} ELSE 0..2

\* the user body calls w.write_result(m) for a matrix m
WriteMatrix ==
    /\ pc = "Active"
    /\ nwrites < MaxWrites
    /\ \E m \in Matrices :
          IF host = "M" THEN PutResult(<<m>>)
          ELSE \E d3 \in ThirdDim(m) : PutResult(<<OV("ndarray", d3, 3)>>)
    /\ UNCHANGED <<locals, handles>>

\* user code calls w.matrices_as_images(b)
SetMatricesAsImages ==
    /\ pc \in {"Idle", "Active"}
    /\ \E b \in BOOLEAN : matricesAsImages' = b
    /\ UNCHANGED <<host, pc, done, nwrites, cur, hasResult, link, pos, out, args,
                   result, rstack, returned, ostdout, thrown, last, locals, handles,
                   userInitializer, initLog, autoloadPath, autoloads>>

NextImages ==
    \/ Invoke
    \/ SetMatricesAsImages
    \/ WriteMatrix
    \/ UserThrow
    \/ Return
    \/ Catch
    \/ Propagate

SpecImages == Init /\ [][NextImages]_vars

(***************************************************************************)
(* Setting up a wrapper: any constructor arguments, then set_autoload and  *)
(* check_initialization called by user code inside and outside sessions.   *)
(* An exception raised outside a session goes to the caller and changes    *)
(* nothing of the wrapper; inside a session it is in flight in             *)
(* run_function's try block.                                               *)
(***************************************************************************)
MaxInitCalls == 3

InitSetup ==
    /\ InitSession
    /\ \E sym \in {"null", "loaded", "unmatched"}, initializer \in BOOLEAN :
          Construct(sym, initializer)

\* function names given to set_autoload
AutoloadNames == {"omw_test_bool", "omw_test_times"}

\* a call made by user code ended with the exception e ("" if none)
Raised(op, name, kind, e) ==
    /\ last' = [NoLast EXCEPT !.op = op, !.cur0 = cur, !.pos0 = pos, !.err = e,
                              !.val = V(op, 0, name, 0, <<>>)]
    /\ pc' = IF pc = "Active" /\ e # "" THEN "Thrown" ELSE pc
    /\ thrown' = IF pc = "Active" /\ e # "" THEN [kind |-> kind, err |-> e]
                 ELSE thrown

\* octave::set_autoload(name)
SetAutoload ==
    /\ host = "O"
    /\ pc \in {"Idle", "Active"}
    /\ \E name \in AutoloadNames :
          IF autoloadPath = ""
          THEN /\ Raised("set_autoload", name, "runtime_error", "ConfigurationError")
               /\ UNCHANGED autoloads
          ELSE /\ autoloads' = autoloads \cup {<<name, autoloadPath>>}
               /\ Raised("set_autoload", name, "", "")
    /\ UNCHANGED <<host, done, nwrites, cur, hasResult, link, pos, out, args, result,
                   rstack, returned, ostdout, locals, handles,
                   matricesAsImages, userInitializer, initLog, autoloadPath>>

\* Mutation of KeepsInitializer: the initializer is never cleared
KeepsInitializer_Always(outcome) == TRUE

\* user_initializer_(); user_initializer_ = std::function<void(void)>();
\* the assignment is not reached when the call throws
KeepsInitializer(outcome) == outcome = "threw"

\* wrapper_base::check_initialization(), the initializer returning or throwing
CheckInitialization ==
    /\ pc \in {"Idle", "Active"}
    /\ Len(initLog) < MaxInitCalls
    /\ IF userInitializer
       THEN \/ /\ initLog' = Append(initLog, "returned")
               /\ userInitializer' = KeepsInitializer("returned")
               /\ Raised("check_initialization", "", "", "")
            \/ /\ initLog' = Append(initLog, "threw")
               /\ userInitializer' = KeepsInitializer("threw")
               /\ \E kind \in ThrowKinds :
                     Raised("check_initialization", "", kind, "UserError")
       ELSE /\ initLog' = Append(initLog, "noop")
            /\ Raised("check_initialization", "", "", "")
            /\ UNCHANGED userInitializer
    /\ UNCHANGED <<host, done, nwrites, cur, hasResult, link, pos, out, args, result,
                   rstack, returned, ostdout, locals, handles,
                   matricesAsImages, autoloadPath, autoloads>>

NextSetup ==
    \/ Invoke
    \/ SetAutoload
    \/ CheckInitialization
    \/ Return
    \/ Catch
    \/ Propagate

SpecSetup == InitSetup /\ [][NextSetup]_vars

(***************************************************************************)
(* The test function omw_test_times as the user body: the session runs    *)
(* impl_omw_test_times_t<TWrapper, int> statement by statement.  locals    *)
(* holds the values of x and y read so far.                                *)
(***************************************************************************)
Times_Sum(x, y) == x + y

\* T result = x * y;
Times(x, y) == x * y

\* T x = w.template get_param<T>(0, "X");
TimesReadX ==
    /\ pc = "Active"
    /\ locals = <<>>
    /\ last.op = "none"
    /\ ReadParam(Atom("int"), 0)
    /\ locals' = IF pc' = "Active" THEN <<last'.val.n>> ELSE locals
    /\ UNCHANGED handles

\* T y = w.template get_param<T>(1, "Y");
TimesReadY ==
    /\ pc = "Active"
    /\ Len(locals) = 1
    /\ last.op = "get_param"
    /\ ReadParam(Atom("int"), 1)
    /\ locals' = IF pc' = "Active" THEN Append(locals, last'.val.n) ELSE locals
    /\ UNCHANGED handles

\* T result = x * y; w.write_result(result);
TimesWrite ==
    /\ pc = "Active"
    /\ Len(locals) = 2
    /\ last.op = "get_param"
    /\ PutResult(<<V("int", Times(locals[1], locals[2]), "", 0, <<>>)>>)
    /\ UNCHANGED locals
    /\ UNCHANGED handles

\* the closing brace of the body
TimesReturn ==
    /\ last.op = "write"
    /\ Return

NextTimes ==
    \/ Invoke
    \/ TimesReadX
    \/ TimesReadY
    \/ TimesWrite
    \/ TimesReturn
    \/ Catch

SpecTimes == Init /\ [][NextTimes]_vars

(***************************************************************************)
(* Sessions on a link that can fail.  WSGetType only looks at the token    *)
(* already received; WSGetSymbol has to read from the link and returns 0   *)
(* when the link has failed in between.  The readers' own error paths      *)
(* (WSClearError and what follows) are reached that way.                   *)
(***************************************************************************)
\* the user body calls w.get_param<sh>(idx, name) and the link fails under it
GetParamFaulty ==
    /\ pc = "Active"
    /\ host = "M"
    /\ \E sh \in Shapes, idx \in IdxRange :
          \E r \in {MGetParam(sh, idx, [cur |-> cur, pos |-> pos, ev |-> <<>>,
                                        fault |-> TRUE])} :
             /\ cur' = r.st.cur
             /\ pos' = r.st.pos
             /\ Observe("get_param", sh, idx, r.err, r.val, r.st.ev)
    /\ UNCHANGED <<host, done, nwrites, hasResult, link, out, args, result, rstack,
                   returned, ostdout, locals>>
    /\ UNCHANGED handles
    /\ UNCHANGED wvars

NextFaulty ==
    \/ Invoke
    \/ GetParam
    \/ GetParamFaulty
    \/ Return
    \/ Catch

SpecFaulty == Init /\ [][NextFaulty]_vars

(***************************************************************************)
(* Foreign buffer handles.  A committed array or matrix read returns a     *)
(* std::shared_ptr to a mathematica_array / mathematica_matrix that owns   *)
(* the buffer decoded by the link.  User code copies and drops references  *)
(* to it, during the session and after it.                                 *)
(***************************************************************************)
MaxHandles == 2
MaxRefs == 2

\* the object built by mathematica_array<float>::make / mathematica_matrix<float>::make
NewHandle(k) ==
    [k |-> k, refs |-> 1, data |-> TRUE, released |-> 0, over |-> FALSE]

\* ~mathematica_array, ~mathematica_matrix: if (m_data) { m_fun(...); m_data = nullptr; }
DestroyHandle(hd) ==
    IF hd.data THEN [hd EXCEPT !.released = @ + 1, !.data = FALSE] ELSE hd

\* Mutation of LastReference: the object is destroyed at every drop
LastReference_Any(refs) == TRUE

\* std::shared_ptr runs the destructor when the reference dropped was the last
LastReference(refs) == refs = 1

\* the user body reads an array or a matrix parameter
ReadBuffer ==
    /\ pc = "Active"
    /\ host = "M"
    /\ Len(handles) < MaxHandles
    /\ \E k \in {"array", "matrix"}, idx \in IdxRange :
          /\ ReadParam(Atom(k), idx)
          /\ handles' = IF pc' = "Active" THEN Append(handles, NewHandle(k))
                        ELSE handles
    /\ UNCHANGED locals

\* user code copies a reference it holds
CopyRef ==
    /\ pc \in {"Idle", "Active"}
    /\ \E h \in DOMAIN handles :
          /\ handles[h].refs > 0
          /\ handles[h].refs < MaxRefs
          /\ handles' = [handles EXCEPT ![h].refs = @ + 1]
    /\ UNCHANGED <<host, pc, done, nwrites, cur, hasResult, link, pos, out, args,
                   result, rstack, returned, ostdout, thrown, last, locals>>
    /\ UNCHANGED wvars

\* user code drops a reference it holds
DropRef ==
    /\ pc \in {"Idle", "Active"}
    /\ \E h \in DOMAIN handles :
          /\ handles[h].refs > 0
          /\ handles' =
                [handles EXCEPT ![h] =
                    IF LastReference(@.refs)
                    THEN DestroyHandle([@ EXCEPT !.refs = @ - 1])
                    ELSE [@ EXCEPT !.refs = @ - 1]]
    /\ UNCHANGED <<host, pc, done, nwrites, cur, hasResult, link, pos, out, args,
                   result, rstack, returned, ostdout, thrown, last, locals>>
    /\ UNCHANGED wvars

NextHandles ==
    \/ Invoke
    \/ ReadBuffer
    \/ CopyRef
    \/ DropRef
    \/ Return
    \/ Catch

SpecHandles == Init /\ [][NextHandles]_vars

(***************************************************************************)
(* Round trip.  The user function writes one atomic value as its result;   *)
(* the peer sends the expression it got back as the argument of the next   *)
(* call, where the user function reads it with the reader of the same      *)
(* type.  The link carries integers, reals and the bytes of a string as    *)
(* they were put (WSPutString / WSGetString do not change the characters). *)
(***************************************************************************)
MaxStrLen == 3

\* characters of the strings written: backslash, n, r, t, 0 and a
RTChars == {92, 110, 114, 116, 48, 97}

\* the values written: 32-bit ints, unsigned ints (as far as the model's
\* integers reach), floats, and every string over RTChars up to MaxStrLen
RTValues ==
    {V("int", n, "", 0, <<>>) : n \in {-2147483647, -1, 0, 42, 2147483647}}
    \cup {V("uint", n, "", 0, <<>>) : n \in {0, 42, 2147483647}}
    \cup {V("float", n, "", 0, <<>>) : n \in {0, 1}}
    \cup {V("string", 0, s, 0, <<>>) :
             s \in UNION {[1..n -> RTChars] : n \in 0..MaxStrLen}}

\* the user body calls w.write_result(v) for a value v it keeps
RTWrite ==
    /\ pc = "Active"
    /\ host = "M"
    /\ last.op = "none"
    /\ \E v \in RTValues :
          /\ PutResult(<<v>>)
          /\ locals' = <<v>>
    /\ UNCHANGED handles

\* the function returns (evaluate_result) and the peer calls again with the
\* result it received as the only argument: run_function starts anew
RTEcho ==
    /\ pc = "Active"
    /\ last.op = "write"
    /\ done' = "Completed"
    /\ nwrites' = 0
    /\ last' = [NoLast EXCEPT !.op = "echo"]
    /\ cur' = 0
    /\ hasResult' = FALSE
    /\ link' = IF ~hasResult THEN Append(out, Tk("SYM", "Null", 0)) ELSE out
    /\ pos' = 1
    /\ out' = <<>>
    /\ UNCHANGED <<host, pc, args, result, rstack, returned, ostdout, thrown,
                   locals, handles>>
    /\ UNCHANGED wvars

\* the user body reads the argument with the reader of the type written
RTRead ==
    /\ pc = "Active"
    /\ last.op = "echo"
    /\ ReadParam(Atom(locals[1].k), 0)
    /\ UNCHANGED <<locals, handles>>

\* the second call returns
RTReturn ==
    /\ last.op = "get_param"
    /\ Return

NextRT ==
    \/ Invoke
    \/ RTWrite
    \/ RTEcho
    \/ RTRead
    \/ RTReturn

SpecRoundTrip == Init /\ [][NextRT]_vars

(***************************************************************************)
(* Scalars off the link.  The peer calls with one argument, a string or an *)
(* integer.  WSGetString hands the bytes of the string to the string       *)
(* reader, which returns them after mathematica_unescape; the bytes are    *)
(* those of a C string: no NUL.  An integer is read as unsigned int,       *)
(* written back as the result, and read again in the call the peer makes   *)
(* with the result it got.                                                 *)
(***************************************************************************)
MaxSrcLen == 5

\* run_function entered for the first call of the session, whose only
\* argument is a string or an integer
CallWithScalar ==
    /\ pc = "Idle"
    /\ done = "none"
    /\ host = "M"
    /\ pc' = "Active"
    /\ nwrites' = 0
    /\ last' = NoLast
    /\ thrown' = NoThrown
    /\ locals' = <<>>
    /\ cur' = 0
    /\ hasResult' = FALSE
    \* strings over backslash, the octal digits 0 and 7, n, r, t and a;
    \* integers with the 16-bit digits 0, 1, 2^15 and 2^16 - 1
    /\ \/ \E s \in UNION {[1..n -> {92, 48, 55, 110, 114, 116, 97}] : n \in 0..MaxSrcLen} :
             link' = <<Tk("STR", s, 0)>>
       \/ \E v \in [1..4 -> {0, 1, 32768, 65535}] :
             link' = <<Tk("INT", "digits", v)>>
    /\ pos' = 1
    /\ out' = <<>>
    /\ UNCHANGED <<host, done, args, result, rstack, returned, ostdout, handles>>
    /\ UNCHANGED wvars

\* the user body reads the argument: w.get_param<std::string>(0, name) or
\* w.get_param<unsigned int>(0, name)
ScalarRead ==
    /\ pc = "Active"
    /\ last.op \in {"none", "echo"}
    /\ ReadParam(Atom(IF link[1].t = "STR" THEN "string" ELSE "uint"), 0)
    /\ UNCHANGED <<locals, handles>>

\* the user body writes the unsigned int it read: w.write_result(u)
ScalarWrite ==
    /\ pc = "Active"
    /\ last.op = "get_param"
    /\ last.sh = Atom("uint")
    /\ locals = <<>>
    /\ PutResult(<<last.val>>)
    /\ locals' = <<last.val>>
    /\ UNCHANGED handles

\* the body returns after a read
ScalarReturn ==
    /\ last.op = "get_param"
    /\ Return

NextScalars ==
    \/ CallWithScalar
    \/ ScalarRead
    \/ ScalarWrite
    \/ RTEcho
    \/ ScalarReturn

SpecScalars == Init /\ [][NextScalars]_vars

(***************************************************************************)
(* Matrices on the numeric host, element by element.  The call has one     *)
(* argument, an array of rank 2 to 4 whose element at an index is a code   *)
(* of that index; the body reads it as a matrix and writes a matrix as its *)
(* result: the one it read, or one it built over a buffer of its own.      *)
(***************************************************************************)
MaxDim == 3

\* the element of the argument at index x: x[1] + 10 x[2] + 100 x[3] + ... + 1
RECURSIVE ElemAt(_)
ElemAt(x) == IF x = <<>> THEN 1 ELSE Head(x) + 10 * ElemAt(Tail(x)) - 9

\* the NDArray with the given dim_vector
ArrayOf(dims) ==
    [t |-> "ndarray", n |-> 0, nd |-> Len(dims), dims |-> dims,
     at |-> [x \in {y \in [1..Len(dims) -> 0..(MaxDim - 1)] :
                      \A q \in 1..Len(dims) : y[q] < dims[q]} |-> ElemAt(x)]]

\* arrays as Octave keeps them: a last dimension of 1 is dropped beyond rank 2
ArgArrays ==
    {ArrayOf(dims) : dims \in {d \in UNION {[1..r -> 1..MaxDim] : r \in 2..4} :
                                  Len(d) > 2 => d[Len(d)] > 1 /\ d[1] < 3 /\ d[2] < 3}}

\* Mutation of OMatrixOf: the buffer is filled in column-major order
OMatrixOf_ColumnMajor(av) ==
    LET d == Len(av.dims)
        dims == <<av.dims[1], av.dims[2], IF d = 3 THEN av.dims[3] ELSE 1>>
        ijk == (0..(dims[1] - 1)) \X (0..(dims[2] - 1)) \X (0..(dims[3] - 1))
    IN  [dims |-> dims,
         data |-> [idx \in 0..(dims[1] * dims[2] * dims[3] - 1) |->
                     LET x == CHOOSE x \in ijk : x[1] + dims[1] * (x[2] + dims[2] * x[3]) = idx
                     IN  IF d = 3 THEN av.at[x] ELSE av.at[<<x[1], x[2]>>]]]

\* the matrix the reader's copy loop builds from the array av of rank 2 or 3:
\* dims{dim1, dim2, d == 3 ? dim3 : 1} and f[(i * dims[1] + j) * dims[2] + k]
OMatrixOf(av) ==
    LET d == Len(av.dims)
        dims == <<av.dims[1], av.dims[2], IF d = 3 THEN av.dims[3] ELSE 1>>
        ijk == (0..(dims[1] - 1)) \X (0..(dims[2] - 1)) \X (0..(dims[3] - 1))
    IN  [dims |-> dims,
         data |-> [idx \in 0..(dims[1] * dims[2] * dims[3] - 1) |->
                     LET x == CHOOSE x \in ijk : (x[1] * dims[2] + x[2]) * dims[3] + x[3] = idx
                     IN  IF d = 3 THEN av.at[x] ELSE av.at[<<x[1], x[2]>>]]]

\* the NDArray the writer's copy loop builds from the matrix m; d3 is what
\* result->dims()[2] gave, junk what a read past the end of the buffer gave
ONDArrayOf(m, d3, junk) ==
    LET dims == <<m.dims[1], m.dims[2], d3>>
    IN  [t |-> "ndarray", n |-> 0, nd |-> 3, dims |-> dims,
         at |-> [x \in (0..(dims[1] - 1)) \X (0..(dims[2] - 1)) \X (0..(dims[3] - 1)) |->
                   LET idx == (x[1] * dims[2] + x[2]) * dims[3] + x[3]
                   IN  IF idx \in DOMAIN m.data THEN m.data[idx] ELSE junk]]

\* octave::run_function entered for a call with one array argument
CallWithArray ==
    /\ pc = "Idle"
    /\ host = "O"
    /\ pc' = "Active"
    /\ nwrites' = 0
    /\ last' = NoLast
    /\ thrown' = NoThrown
    /\ locals' = <<>>
    /\ \E av \in ArgArrays : args' = <<av>>
    /\ result' = <<>>
    /\ returned' = <<>>
    /\ ostdout' = <<>>
    /\ UNCHANGED <<host, done, cur, hasResult, link, pos, out, rstack, handles>>
    /\ UNCHANGED wvars

\* the user body reads the argument: w.get_param<std::shared_ptr<matrix>>(0, name)
MatrixRead ==
    /\ pc = "Active"
    /\ last.op = "none"
    /\ ReadParam(Atom("matrix"), 0)
    /\ locals' = IF pc' = "Active" THEN <<OMatrixOf(Arg(0))>> ELSE locals
    /\ UNCHANGED handles

\* the user body writes a matrix, w.write_result(m): the one it read, or a
\* vector_matrix it made over dims {a, b} or {a, b, c}.  The writer reads
\* dims()[0], dims()[1] and dims()[2]; the last is past the end of a dimension
\* vector of two entries and can give anything, and so can the elements then
\* read past the end of the buffer.
MatrixWrite ==
    /\ pc = "Active"
    /\ host = "O"
    /\ nwrites = 0
    /\ \E m \in IF locals # <<>> THEN {locals[1]}
                ELSE {[dims |-> d, data |-> [idx \in 0..(d[1] * d[2] * (IF Len(d) = 3 THEN d[3] ELSE 1) - 1) |-> idx + 1]] :
                         d \in [1..2 -> 1..2] \cup [1..3 -> 1..2]} :
       \E d3 \in IF Len(m.dims) >= 3 THEN {m.dims[3]} ELSE 0..2 :
       \E junk \in IF d3 > 1 /\ Len(m.dims) < 3 THEN {0, 9} ELSE {0} :
          /\ result' = OAppendResult([result |-> result, rstack |-> rstack],
                                     ONDArrayOf(m, d3, junk)).result
          /\ locals' = <<m>>
    /\ nwrites' = nwrites + 1
    /\ Observe("write", Atom("matrix"), 1, "", NoVal,
               <<[e |-> "dims", p |-> 0], [e |-> "dims", p |-> 1], [e |-> "dims", p |-> 2]>>)
    /\ UNCHANGED <<host, done, cur, hasResult, link, pos, out, args, rstack, returned,
                   ostdout, handles>>
    /\ UNCHANGED wvars

NextMatrix ==
    \/ CallWithArray
    \/ MatrixRead
    \/ MatrixWrite
    \/ Return
    \/ Catch

SpecMatrix == Init /\ [][NextMatrix]_vars

(***************************************************************************)
(* Properties.  `last` holds the operation the user body ran last, with    *)
(* the cursor and link position it started from; cur and pos are the       *)
(* values it left.                                                         *)
(***************************************************************************)
InBody == pc \in {"Active", "Thrown"}
AfterRead == InBody /\ last.op \in {"get_param", "get_params"}
AfterGetParam == InBody /\ last.op = "get_param"

\* the reader state the last operation started from
St0 == [cur |-> last.cur0, pos |-> last.pos0, ev |-> <<>>, fault |-> FALSE]

\* the type test of alternative i of the variant read last, taken on the
\* value the read started at
Passes(i) ==
    IF host = "M" THEN MIsType(last.sh.sub[i].k, last.idx, St0).ok
    ELSE OIsType(last.sh.sub[i].k, last.idx).ok

NoAlternativePasses == \A i \in 1..Len(last.sh.sub) : ~Passes(i)

Called(e, p) == \E i \in 1..Len(last.ev) : last.ev[i] = [e |-> e, p |-> p]

C2_WrongIndexTouchesNothing ==
    (host = "M" /\ AfterRead /\ last.idx # last.cur0) =>
      /\ last.err = "ProtocolError"
      /\ last.ev = <<>>
      /\ pos = last.pos0
      /\ cur = last.cur0

\* a tuple read at the wrong index while a List head is next on the link
C2_Witness ==
    /\ host = "M"
    /\ AfterGetParam
    /\ last.sh.k = "tuple"
    /\ last.idx # last.cur0
    /\ Tok(last.pos0).t = "FUNC"
    /\ last.ev = <<>>
    /\ pos = last.pos0

\* C3: on the symbolic host a successful atomic get_param leaves the cursor
\* one above where it started, and one that fails its type check leaves the
\* cursor where it started.
C3_AtomicCursorStep ==
    (host = "M" /\ AfterGetParam /\ IsAtom(last.sh)) =>
      /\ last.err = "" => cur = last.cur0 + 1
      /\ last.err = "TypeMismatchError" => cur = last.cur0

\* an array read that consumed several tokens and moved the cursor by one
C3_Witness ==
    /\ host = "M"
    /\ AfterGetParam
    /\ last.sh.k = "array"
    /\ last.err = ""
    /\ pos > last.pos0 + 2
    /\ cur = last.cur0 + 1

\* C4: on the symbolic host every composite read (optional, tuple, variant,
\* nestings, and a list iterated from its first to its last element) that
\* succeeds starting at index s leaves the cursor at s + 1.
C4_CompositeAdvancesByOne ==
    ( /\ host = "M"
      /\ AfterRead
      /\ last.err = ""
      /\ ~IsAtom(last.sh) \/ last.op = "get_params"
      /\ last.op = "get_params" => last.val.k = "list" )
    => cur = last.cur0 + 1

\* C5: a variant read that succeeds is tagged with the first alternative, in
\* declaration order, whose type test passes on the value read (both hosts).
C5_FirstMatchingAlternative ==
    (AfterGetParam /\ last.sh.k = "variant" /\ last.err = "") =>
      /\ last.val.tag \in 1..Len(last.sh.sub)
      /\ Passes(last.val.tag)
      /\ \A j \in 1..(last.val.tag - 1) : ~Passes(j)
      /\ last.val.sub[1].k = last.sh.sub[last.val.tag].k

\* a value that passes the type test of both alternatives is tagged with the first
C5_Witness ==
    /\ host = "M"
    /\ AfterGetParam
    /\ last.sh.k = "variant"
    /\ last.err = ""
    /\ Passes(1)
    /\ Passes(2)
    /\ last.val.tag = 1

\* C6: a variant read for which no alternative's type test passes fails with
\* NoMatchingAlternativeError, and then cursor and link position are where
\* the read started.
C6_NoMatchRollsBack ==
    (AfterGetParam /\ last.sh.k = "variant") =>
      /\ (NoAlternativePasses /\ last.err # "ProtocolError")
            => last.err = "NoMatchingAlternativeError"
      /\ last.err = "NoMatchingAlternativeError"
            => (NoAlternativePasses /\ cur = last.cur0 /\ pos = last.pos0)

\* no alternative matched after a probe that consumed a symbol and was rewound
C6_Witness ==
    /\ host = "M"
    /\ AfterGetParam
    /\ last.sh.k = "variant"
    /\ last.err = "NoMatchingAlternativeError"
    /\ Called("SeekToMark", last.pos0)
    /\ pos = last.pos0

\* C7: on the symbolic host, optional<T> read at the cursor with a symbol next
\* on the link: if the symbol is Null the read returns the empty value, the
\* link is one token further and the cursor one higher; otherwise the link is
\* rewound to where the read started and the outcome is that of reading T at
\* the same index from there.
C7_OptionalOnSymbol ==
    ( /\ host = "M"
      /\ AfterGetParam
      /\ last.sh.k = "optional"
      /\ last.idx = last.cur0
      /\ Tok(last.pos0).t = "SYM" )
    => IF Tok(last.pos0).s = "Null"
       THEN /\ last.err = ""
            /\ last.val = V("optional", 0, "", 0, <<>>)
            /\ pos = last.pos0 + 1
            /\ cur = last.cur0 + 1
       ELSE LET d == MGetParam(last.sh.sub[1], last.idx, St0)
            IN  /\ Called("SeekToMark", last.pos0)
                /\ last.err = d.err
                /\ cur = d.st.cur
                /\ pos = d.st.pos
                /\ last.err = "" => last.val = V("optional", 1, "", 0, <<d.val>>)

\* optional<bool> on the symbol True: rewound, then read as a bool
C7_Witness ==
    /\ host = "M"
    /\ AfterGetParam
    /\ last.sh = Opt(Atom("bool"))
    /\ Tok(last.pos0) = Tk("SYM", "True", 0)
    /\ last.err = ""
    /\ last.val.sub = <<V("bool", 1, "", 0, <<>>)>>
    /\ cur = last.cur0 + 1

\* C8: on the numeric host, optional<T> read at an index not below the
\* argument count returns the empty value without raising; below the count
\* the outcome is that of reading T at that index; and the read changes no
\* state of the wrapper.
C8_OptionalBeyondArgs ==
    /\ [] ( (host = "O" /\ AfterGetParam /\ last.sh.k = "optional") =>
              IF last.idx >= Len(args)
              THEN last.err = "" /\ last.val = V("optional", 0, "", 0, <<>>)
              ELSE LET d == OGetParam(last.sh.sub[1], last.idx)
                   IN  /\ last.err = d.err
                       /\ last.err = "" => last.val = V("optional", 1, "", 0, <<d.val>>) )
    /\ [][ (host = "O" /\ pc = "Active" /\ last'.op = "get_param"
              /\ last'.sh.k = "optional")
           => UNCHANGED <<args, result, rstack, returned, ostdout, cur, hasResult,
                          nwrites>> ]_vars

\* optional<int> read at the index one past the last argument
C8_Witness ==
    /\ host = "O"
    /\ AfterGetParam
    /\ last.sh = Opt(Atom("int"))
    /\ Len(args) >= 1
    /\ last.idx = Len(args)
    /\ last.err = ""
    /\ last.val.n = 0

(***************************************************************************)
(* Outcomes of an invocation                                               *)
(***************************************************************************)
\* index after the expressions that start at i, `pending` of them
RECURSIVE SkipExprs(_, _, _)
SkipExprs(seq, i, pending) ==
    IF pending = 0 \/ i > Len(seq) THEN i
    ELSE SkipExprs(seq, i + 1,
                   pending - 1 + (IF seq[i].t = "FUNC" THEN seq[i].n ELSE 0))

\* heads of the top-level expressions put on the link, control calls left out
RECURSIVE TopLevel(_, _)
TopLevel(seq, i) ==
    IF i > Len(seq) THEN <<>>
    ELSE IF seq[i].t = "CTL" THEN TopLevel(seq, i + 1)
    ELSE <<seq[i]>> \o TopLevel(seq, SkipExprs(seq, i, 1))

IsOutcome(t) == t.s # "EvaluatePacket"

\* what the host gets from the invocation that just ended: on the link, each
\* top-level expression is a result, the Null placeholder or $Failed (the
\* EvaluatePacket that carries the message belongs to the failure signal);
\* the interpreter gets the returned list or, on failure, the lines on stdout
Outcomes ==
    IF host = "M"
    THEN Len(SelectSeq(TopLevel(out, 1), IsOutcome))
    ELSE IF done = "Failed" THEN Len(ostdout) + Len(returned)
    ELSE 1

\* C9: whenever run_function has returned to the host, the invocation has
\* produced exactly one of a result, the placeholder or a failure signal.
C9_ExactlyOneOutcome ==
    (pc = "Idle" /\ done # "none") => Outcomes = 1

\* C10: no error raised in the user function body leaves run_function.
C10_NothingEscapes == pc # "Escaped"

Wire67 == Flatten(<<EInt(6), EInt(7)>>)

\* C12: the multiply function called with the arguments (6, 7) reads index 0
\* then index 1 with the cursor going 0, 1, 2, writes exactly one int result,
\* 42, raises nothing, sends neither the Null placeholder nor a failure
\* signal, and the cursor is the closed sentinel after the session.
C12_TimesSixSeven ==
    /\ [](/\ (host = "M" /\ link = Wire67 /\ InBody) =>
                /\ pc = "Active"
                /\ cur = Len(locals)
                /\ last.op = "none" => (cur = 0 /\ out = <<>>)
                /\ last.op = "write" => (cur = 2 /\ out = <<Tk("INT", "", 42)>>)
          /\ (host = "M" /\ link = Wire67 /\ pc = "Idle" /\ done # "none") =>
                /\ done = "Completed"
                /\ out = <<Tk("INT", "", 42)>>
                /\ cur = Closed
          /\ (host = "O" /\ args = <<OSix, OSeven>> /\ pc = "Idle" /\ done # "none") =>
                /\ done = "Completed"
                /\ returned = <<V("int", 42, "", 0, <<>>)>>
                /\ ostdout = <<>>)
    /\ [][(host = "M" /\ link' = Wire67 /\ pc = "Active" /\ last'.op = "get_param") =>
             (cur' = cur + 1 /\ last'.idx = cur /\ last'.val.n = IF cur = 0 THEN 6 ELSE 7)]_vars

\* the session of omw_test_times[6, 7] is over and 42 is the only token sent
C12_Witness ==
    /\ host = "M"
    /\ link = Wire67
    /\ pc = "Idle"
    /\ done = "Completed"
    /\ out = <<Tk("INT", "", 42)>>
    /\ cur = Closed

\* the first argument of the call is there and is not a number
NonNumericFirst ==
    IF host = "M" THEN link # <<>> /\ Tok(1).t \in {"STR", "SYM", "FUNC"}
    ELSE args # <<>> /\ ~IsScalarType(args[1])

\* C13: the multiply function called with a non-numeric first argument fails
\* in the read of index 0 with a TypeMismatchError; index 1 is never read and
\* nothing is written; the controller catches the error, the host gets exactly
\* one failure signal and no result or placeholder, and the cursor is the
\* closed sentinel afterwards.
C13_TimesNonNumericFirst ==
    NonNumericFirst =>
       /\ pc = "Active" => (last.op = "none" /\ locals = <<>>)
       /\ pc = "Thrown" =>
             /\ last.op = "get_param"
             /\ last.idx = 0
             /\ last.err = "TypeMismatchError"
             /\ thrown = [kind |-> "runtime_error", err |-> "TypeMismatchError"]
             /\ locals = <<>>
             /\ nwrites = 0
             /\ host = "M" => (cur = 0 /\ out = <<>>)
       /\ (pc = "Idle" /\ done # "none") =>
             /\ done = "Failed"
             /\ Outcomes = 1
             /\ IF host = "M"
                THEN /\ out = SendFailureTokens("TypeMismatchError")
                     /\ cur = Closed
                ELSE /\ ostdout = <<"TypeMismatchError">>
                     /\ returned = <<>>

\* omw_test_times["s", "s"] has failed: the failure signal is on the link
C13_Witness ==
    /\ host = "M"
    /\ link = Flatten(<<EStr, EStr>>)
    /\ pc = "Idle"
    /\ done = "Failed"
    /\ out = SendFailureTokens("TypeMismatchError")
    /\ cur = Closed

(***************************************************************************)
(* Tuple arity                                                             *)
(***************************************************************************)
\* the last operation was a tuple read at an index the host accepts
AfterTupleRead ==
    /\ AfterGetParam
    /\ last.sh.k = "tuple"
    /\ IF host = "M" THEN last.idx = last.cur0 ELSE last.idx < Len(args)

\* number of elements supplied for the tuple read last: the length of the
\* list on the link, the arguments from the tuple's index on in the interpreter
Supplied ==
    IF host = "M"
    THEN IF Tok(last.pos0).t = "FUNC" /\ Tok(last.pos0).s = "List"
         THEN Tok(last.pos0).n ELSE -1
    ELSE Len(args) - last.idx

\* C14, as amended: on the symbolic host a tuple read of n shapes succeeds
\* only on a list of exactly n elements, and any other list fails with an
\* ArityError reporting got and expected before any element is read.  On the
\* numeric host a tuple is read from the n consecutive arguments at its
\* index: it fails, reporting the size and the index, exactly when fewer than
\* n arguments remain, and further arguments are ignored.
C14_TupleArityPerHost ==
    AfterTupleRead =>
       LET n == Len(last.sh.sub)
       IN  IF host = "M"
           THEN /\ last.err = "" => Supplied = n
                /\ (Supplied >= 0 /\ Supplied # n) =>
                      /\ last.err = "ArityError"
                      /\ last.val = V("arity", Supplied, "", n, <<>>)
                      /\ last.ev = <<[e |-> "CheckFunction", p |-> last.pos0]>>
                      /\ cur = last.cur0
           ELSE /\ last.err = "" => Supplied >= n
                /\ Supplied < n =>
                      /\ last.err = "ArityError"
                      /\ last.val = V("notenough", last.idx, "", n, <<>>)
                /\ (/\ last.sh = Tup(<<Atom("int"), Atom("int")>>)
                    /\ Supplied >= n
                    /\ IsScalarType(args[last.idx + 1])
                    /\ IsScalarType(args[last.idx + 2])) => last.err = ""

\* get_param<std::tuple<int, int>> on List[6, 7, 6] has raised the arity
\* error that reports got 3, expected 2
C14_Witness ==
    /\ host = "M"
    /\ AfterTupleRead
    /\ last.sh = Tup(<<Atom("int"), Atom("int")>>)
    /\ Supplied = 3
    /\ pc = "Thrown"
    /\ last.err = "ArityError"
    /\ last.val = V("arity", 3, "", 2, <<>>)

\* C14 as stated: on both hosts a tuple read succeeds only when exactly n
\* elements are supplied, and (int,int) supplied with 3 elements fails with
\* an ArityError reporting expected 2 and actual 3
C14_TupleNeedsExactArity ==
    (AfterTupleRead /\ \A i \in 1..Len(last.sh.sub) : IsAtom(last.sh.sub[i])) =>
       /\ last.err = "" => Supplied = Len(last.sh.sub)
       /\ (last.sh = Tup(<<Atom("int"), Atom("int")>>) /\ Supplied = 3) =>
             (last.err = "ArityError" /\ last.val = V("arity", 3, "", 2, <<>>))

(***************************************************************************)
(* Type tests                                                              *)
(***************************************************************************)
\* is_type<k>(idx) called by the user body in the current state
IsTypeHere(k, idx) ==
    IF host = "M" THEN MIsType(k, idx, [cur |-> cur, pos |-> pos, ev |-> <<>>, fault |-> FALSE])
    ELSE [st |-> [cur |-> cur, pos |-> pos, ev |-> <<>>, fault |-> FALSE]] @@ OIsType(k, idx)

\* the index check of the current host rejects idx
InvalidIdx(idx) == IF host = "M" THEN idx # cur ELSE idx >= Len(args)

\* C15, as amended: a type test raises exactly when its index is invalid
\* (symbolic host: not the cursor; numeric host: not below the argument
\* count), and then it raises the ProtocolError of the index check; at a valid
\* index it never raises whatever the content, reports a mismatch through its
\* result only and leaves cursor and position alone, so the probes of a
\* variant read at a valid index raise nothing.
C15_IsTypeRaisesOnlyOnIndex ==
    /\ pc = "Active" =>
          \A k \in AtomKinds, idx \in IdxRange :
             LET r == IsTypeHere(k, idx)
             IN  /\ r.err \in {"", "ProtocolError"}
                 /\ r.err = "ProtocolError" <=> InvalidIdx(idx)
                 /\ r.err = "" => (r.st.cur = cur /\ r.st.pos = pos)
    /\ (AfterGetParam /\ last.sh.k = "variant") =>
          /\ last.err \in {"", "ProtocolError", "NoMatchingAlternativeError"}
          /\ last.err = "ProtocolError" <=>
                (IF host = "M" THEN last.idx # last.cur0 ELSE last.idx >= Len(args))

\* a variant read has returned its second alternative: the probe of the first
\* one reported the mismatch without raising
C15_Witness ==
    /\ AfterGetParam
    /\ last.sh.k = "variant"
    /\ last.err = ""
    /\ last.val.tag = 2
    /\ pc = "Active"
    /\ host = "M"
    /\ last.idx = last.cur0
    /\ ~MIsType(last.sh.sub[1].k, last.idx, St0).ok
    /\ MIsType(last.sh.sub[1].k, last.idx, St0).err = ""

\* C15 as stated: a type test never raises, for any index and any content
C15_IsTypeNeverRaises ==
    pc = "Active" =>
       \A k \in AtomKinds, idx \in IdxRange : IsTypeHere(k, idx).err = ""

(***************************************************************************)
(* Marks                                                                   *)
(***************************************************************************)
\* the atomic readers that place a mark before they call the decode primitive
MarkReaders == {"bool", "array", "matrix"}

\* try_read<k>(cur, getData) called in the current state
TryReadHere(k, getData) ==
    MTryRead(k, cur, getData, [cur |-> cur, pos |-> pos, ev |-> <<>>, fault |-> FALSE])

\* the transport call e at position p is among the calls of result r
Made(r, e, p) == \E i \in 1..Len(r.st.ev) : r.st.ev[i] = [e |-> e, p |-> p]

\* C16: on the symbolic host, whenever a reader that places a mark (bool,
\* array, matrix) returns without a committed success (the decode primitive
\* failed, the value decoded has the wrong shape, or the read was a type
\* test), it has rewound the transport to the mark (WSSeekToMark), the
\* position is the one of the mark and the cursor is unchanged.
C16_NonCommittedRewinds ==
    (host = "M" /\ pc = "Active") =>
       \A k \in MarkReaders, getData \in BOOLEAN :
          LET r == TryReadHere(k, getData)
          IN  (r.err = "" /\ ~(r.ok /\ getData)) =>
                 /\ Made(r, "SeekToMark", pos)
                 /\ r.st.pos = pos
                 /\ r.st.cur = cur

\* the CreateMark / DestroyMark calls of ev from i on, with the marks live
\* before i on `stack`: each destroy hits the mark created last and still
\* live, and no mark is left at the end
RECURSIVE MarksNested(_, _, _)
MarksNested(ev, i, stack) ==
    IF i > Len(ev) THEN stack = <<>>
    ELSE IF ev[i].e = "CreateMark"
    THEN MarksNested(ev, i + 1, Append(stack, ev[i].p))
    ELSE IF ev[i].e = "DestroyMark"
    THEN /\ stack # <<>>
         /\ stack[Len(stack)] = ev[i].p
         /\ MarksNested(ev, i + 1, SubSeq(stack, 1, Len(stack) - 1))
    ELSE MarksNested(ev, i + 1, stack)

\* C17: every mark created by a read is destroyed exactly once before the
\* read returns or raises, error paths included, a mark is destroyed only
\* after the marks created after it, and none is live between reads and when
\* the session is Idle.
C17_MarksDestroyedOnce ==
    (host = "M" /\ AfterGetParam) => MarksNested(last.ev, 1, <<>>)

(***************************************************************************)
(* Foreign buffer handles (SpecHandles)                                    *)
(***************************************************************************)
\* C18: for every handle made by a committed array or matrix read and every
\* sequence of copies and drops of references to it, the release function
\* bound to it has run exactly once if no reference is left and not at all
\* while one is held, and it runs in the very step that drops the last one.
C18_ReleasedOnceAtLastDrop ==
    /\ [](\A h \in DOMAIN handles :
             /\ handles[h].released = IF handles[h].refs = 0 THEN 1 ELSE 0
             /\ handles[h].data <=> handles[h].refs > 0)
    /\ [][\A h \in DOMAIN handles :
             handles'[h].released # handles[h].released =>
                /\ handles[h].refs = 1
                /\ handles'[h].refs = 0
                /\ handles'[h].released = handles[h].released + 1]_vars

\* the first handle has lost its last reference and its buffer has been
\* released once, while the second one is held twice and is not released
C18_Witness ==
    /\ Len(handles) = 2
    /\ handles[1].refs = 0
    /\ handles[1].released = 1
    /\ handles[2].refs = 2
    /\ handles[2].released = 0

\* C19: the steps that start and end a session (Invoke, Return, Catch) leave
\* every handle as it is, so a handle whose session is over, normally or by
\* failure, is still unreleased as long as user code holds a reference, also
\* while later sessions run.
C19_ReleaseIndependentOfSession ==
    /\ [](\A h \in DOMAIN handles :
             (handles[h].over /\ handles[h].refs > 0) =>
                (handles[h].released = 0 /\ handles[h].data))
    /\ [][(pc = "Idle" \/ pc' = "Idle") /\ pc' # pc =>
             \A h \in DOMAIN handles :
                /\ handles'[h].refs = handles[h].refs
                /\ handles'[h].released = handles[h].released
                /\ handles'[h].data = handles[h].data]_vars

\* a later session is running after a failed one, and a handle made in a
\* session that is over is still held and unreleased
C19_Witness ==
    /\ pc = "Active"
    /\ done = "Failed"
    /\ \E h \in DOMAIN handles :
          /\ handles[h].over
          /\ handles[h].refs > 0
          /\ handles[h].released = 0

(***************************************************************************)
(* Round trip (SpecRoundTrip)                                              *)
(***************************************************************************)
\* C20: for int, unsigned int, float and string, a value written with the
\* result writer and decoded from what was written with the parameter reader
\* of the same type comes back unchanged; for strings this includes every
\* string in which a backslash is followed by n, r, t or 0.
C20_RoundTrip ==
    (host = "M" /\ last.op = "get_param" /\ locals # <<>>) =>
       /\ last.err = ""
       /\ last.val = locals[1]

(***************************************************************************)
(* List reader: dereferencing a position again                             *)
(***************************************************************************)
\* get_params<Ts...>(first) called in the current state, then the iterator
\* positions ks (at most two) dereferenced in order
ListRead(Ts, first, ks) ==
    IF host = "M"
    THEN LET c == MListReader(Ts, first, [cur |-> cur, pos |-> pos, ev |-> <<>>,
                                          fault |-> FALSE])
         IN  IF c.err # "" \/ \E i \in 1..Len(ks) : ks[i] >= c.val.n
             THEN Throw(c.st, "NoSuchRead")
             ELSE MDeref(ElemShape(Ts), first, ks, 2,
                         MDeref(ElemShape(Ts), first, ks, 1, c))
    ELSE LET r0 == ORes(TRUE, V("list", OListCount(Ts, first), "", 0, <<>>))
         IN  IF \E i \in 1..Len(ks) : ks[i] >= OListCount(Ts, first)
             THEN OThrow("NoSuchRead")
             ELSE ODeref(ElemShape(Ts), Len(Ts), first, ks, 2,
                         ODeref(ElemShape(Ts), Len(Ts), first, ks, 1, r0))

\* C21: on both hosts, when dereferencing the first position of a list
\* reader succeeds, dereferencing the same position again raises nothing and
\* returns the same value.
C21_DerefTwiceSameValue ==
    pc = "Active" =>
       \A Ts \in ListTypes, first \in IdxRange :
          LET once == ListRead(Ts, first, <<0>>)
              twice == ListRead(Ts, first, <<0, 0>>)
          IN  once.err = "" =>
                 /\ twice.err = ""
                 /\ twice.val.sub = <<once.val.sub[1], once.val.sub[1]>>

(* The cursor across and within read operations *)
\* the cursor as the element reads of the tuple read last left it, before
\* the tuple reader sets it
TupleElemsCur ==
    MTupleImpl(last.sh.sub, 1, last.idx, [St0 EXCEPT !.pos = @ + 1], <<>>).st.cur

TupleReadDone ==
    host = "M" /\ AfterGetParam /\ last.sh.k = "tuple" /\ last.err = ""

\* C22, as amended: on the symbolic host no read operation, failed or not,
\* ends with the cursor below the value it had when the operation began; a
\* successful tuple read of n elements begun at cursor s ends at s + 1, after
\* its element reads had raised the cursor to s + n.
C22_CursorMonotoneAcrossReads ==
    host = "M" /\ AfterRead =>
       /\ cur >= last.cur0
       /\ TupleReadDone =>
             /\ cur = last.cur0 + 1
             /\ TupleElemsCur = last.cur0 + Len(last.sh.sub)

C22_Witness ==
    /\ TupleReadDone
    /\ Len(last.sh.sub) = 2
    /\ last.cur0 = 1
    /\ TupleElemsCur = 3
    /\ cur = 2

\* C22, as stated: a tuple read never leaves the cursor below a value the
\* cursor held while the elements of the tuple were read.
C22_CursorNeverDecreases == TupleReadDone => cur >= TupleElemsCur

(* The Null placeholder *)
NullsSent == { i \in 1..Len(out) : out[i] = Tk("SYM", "Null", 0) }

JustEnded == pc = "Idle" /\ done # "none"

\* C23: on the symbolic host the output of an invocation holds the Null
\* placeholder exactly when the user function returned normally and wrote no
\* result; it holds none while the body runs, after a result write or after a
\* failure signal, and after a failure signal has-result is true.
C23_NullIffNoResult ==
    host = "M" =>
       /\ Cardinality(NullsSent) <= 1
       /\ NullsSent # {} <=> (JustEnded /\ done = "Completed" /\ nwrites = 0)
       /\ (JustEnded /\ done = "Failed") =>
             /\ hasResult
             /\ out[Len(out)] = Tk("SYM", "$Failed", 0)

C23_Witness ==
    /\ host = "M"
    /\ JustEnded
    /\ done = "Completed"
    /\ nwrites = 0
    /\ out = <<Tk("SYM", "Null", 0)>>

(* Multi-value writes *)
\* the step is a write_result call with the n >= 2 results vs
MultiWriteStep(vs) ==
    /\ pc = "Active"
    /\ nwrites' = nwrites + 1
    /\ last'.op = "write"
    /\ last'.idx = Len(vs)
    /\ Len(vs) >= 2

\* C24: a write of n >= 2 results adds, on the symbolic host, one List head of
\* arity n followed by the n components in argument order, each once, and
\* nothing else; on the numeric host it appends the n components in argument
\* order to the result list, the result-group stack is the same after the
\* write as before it, and it is empty before and after every step.
C24_MultiWriteGroupsInOrder ==
    [][ /\ host = "O" => rstack = <<>> /\ rstack' = <<>>
        /\ \A vs \in WriteArgs :
              MultiWriteStep(vs) =>
                 IF host = "M"
                 THEN out' = out \o <<Tk("FUNC", "List", Len(vs))>>
                                 \o [i \in 1..Len(vs) |-> MWriteAtomic(vs[i])[1]]
                 ELSE /\ result' = result \o vs
                      /\ rstack' = rstack ]_vars

C24_Witness ==
    /\ host = "O"
    /\ pc = "Active"
    /\ nwrites = 2
    /\ last.op = "write"
    /\ last.idx = 2
    /\ Len(result) = 4
    /\ result[3] = result[1]
    /\ result[4] = result[2]
    /\ result[1] # result[2]
    /\ rstack = <<>>

(* Matrix results and the matrices-as-images flag *)
ImageHead == Tk("FUNC", "Image", 1)

\* the step is a write_result call
WriteStep == pc = "Active" /\ nwrites' = nwrites + 1

\* what the step added to the link
Put == SubSeq(out', Len(out) + 1, Len(out'))

PathResolved == autoloadPath = "lib.oct"

\* C26: after a set_autoload call on a wrapper without a resolved library
\* path the call has failed with ConfigurationError and nothing is
\* registered; on a wrapper with a resolved path the name given is registered
\* with that path, and nothing is registered with another path.
C26_AutoloadNeedsResolvedPath ==
    host = "O" =>
       /\ ~PathResolved => autoloads = {}
       /\ \A e \in autoloads : e[2] = autoloadPath
       /\ last.op = "set_autoload" =>
             IF PathResolved
             THEN last.err = "" /\ <<last.val.s, autoloadPath>> \in autoloads
             ELSE last.err = "ConfigurationError"

(* check_initialization *)
Ran(i) == initLog[i] \in {"returned", "threw"}

\* C27, as amended: a check_initialization call runs the initializer exactly
\* when the wrapper was constructed with one and no earlier call's run of it
\* returned normally: every call before the first normal return has run it
\* and thrown, every call after it is a no-op; on a wrapper constructed
\* without an initializer every call is a no-op.
C27_InitializerRunsUntilItReturns ==
    /\ \A i \in DOMAIN initLog : Ran(i) => \A j \in 1..(i - 1) : initLog[j] = "threw"
    /\ userInitializer => \A i \in DOMAIN initLog : initLog[i] = "threw"
    /\ (~userInitializer /\ initLog # <<>> /\ initLog[1] # "noop") =>
          \E i \in DOMAIN initLog : initLog[i] = "returned"

C27_Witness ==
    /\ initLog = <<"threw", "returned", "noop">>
    /\ ~userInitializer

\* C27, as stated: on a wrapper constructed with an initializer, whatever
\* calls have been made, the initializer has run exactly once, in the first.
C27_InitializerRunsExactlyOnce ==
    (initLog # <<>> /\ Ran(1)) => \A i \in DOMAIN initLog : Ran(i) <=> i = 1

(* Element reads of a tuple *)
\* the tuple read last was requested at the cursor and found a List of the
\* tuple's size, so that its elements were read
TupleElemsRead ==
    /\ host = "M"
    /\ AfterGetParam
    /\ last.sh.k = "tuple"
    /\ last.idx = last.cur0
    /\ Tok(last.pos0) = Tk("FUNC", "List", Len(last.sh.sub))

IsGetInteger32(e) == e.e = "GetInteger32"

\* the decode calls of the element reads, in the order they were made
Gets == SelectSeq(last.ev, IsGetInteger32)

\* C28: on the symbolic host no element read of a tuple fails its index
\* check.  For a tuple of n ints read at cursor s: the elements are decoded
\* one after the other at the wire positions following the List head; when
\* all n decode the read succeeds; when the k-th does not, the read raises
\* TypeMismatchError there, the cursor is s + k - 1, and no transport call
\* follows the failed one.
C28_TupleElementsInOrder ==
    TupleElemsRead =>
       /\ last.err # "ProtocolError"
       /\ (\A i \in DOMAIN last.sh.sub : last.sh.sub[i] = Atom("int")) =>
             /\ Len(Gets) \in 1..Len(last.sh.sub)
             /\ \A i \in DOMAIN Gets : Gets[i].p = last.pos0 + i
             /\ \A i \in 1..(Len(Gets) - 1) : Tok(Gets[i].p).t = "INT"
             /\ IF last.err = ""
                THEN /\ Len(Gets) = Len(last.sh.sub)
                     /\ Tok(Gets[Len(Gets)].p).t = "INT"
                     /\ last.ev[Len(last.ev)] = Gets[Len(Gets)]
                ELSE /\ last.err = "TypeMismatchError"
                     /\ Tok(Gets[Len(Gets)].p).t # "INT"
                     /\ last.ev[Len(last.ev)] =
                           [e |-> "ClearError", p |-> Gets[Len(Gets)].p]
                     /\ last.ev[Len(last.ev) - 1] = Gets[Len(Gets)]
                     /\ cur = last.cur0 + Len(Gets) - 1

\* the second element of a pair fails to decode
C28_Witness ==
    /\ TupleElemsRead
    /\ last.sh = Tup(<<Atom("int"), Atom("int")>>)
    /\ last.err = "TypeMismatchError"
    /\ Len(Gets) = 2
    /\ cur = last.cur0 + 1

(* Commit and type test of the readers that place a mark *)
\* the transport calls named e among the calls of result r
Calls(r, e) == { i \in DOMAIN r.st.ev : r.st.ev[i].e = e }

\* C29: on the symbolic host, for the readers that place a mark (bool, array,
\* matrix) called at the cursor: a successful committing read never seeks,
\* destroys its one mark, advances the cursor by one and leaves the transport
\* past the value; a successful type test leaves position and cursor as they
\* were; and the committing read made after a successful type test succeeds
\* and returns what it returns without the test.
C29_CommitKeepsTestRewinds ==
    (host = "M" /\ pc = "Active") =>
       \A k \in MarkReaders :
          LET commit == TryReadHere(k, TRUE)
              test == TryReadHere(k, FALSE)
              after == MTryRead(k, cur, TRUE, [test.st EXCEPT !.ev = <<>>])
          IN  /\ (commit.err = "" /\ commit.ok) =>
                    /\ Calls(commit, "SeekToMark") = {}
                    /\ Cardinality(Calls(commit, "CreateMark")) = 1
                    /\ Cardinality(Calls(commit, "DestroyMark")) = 1
                    /\ Made(commit, "DestroyMark", pos)
                    /\ commit.st.cur = cur + 1
                    /\ commit.st.pos > pos
                    /\ test.ok
              /\ (test.err = "" /\ test.ok) =>
                    /\ test.st.pos = pos
                    /\ test.st.cur = cur
                    /\ after.err = ""
                    /\ after.ok
                    /\ after.val = commit.val
                    /\ after.st.pos = commit.st.pos

\* a committed read of a boolean that followed a type test of it, as in the
\* read of a variant whose first alternative is bool
C29_Witness ==
    /\ host = "M"
    /\ AfterGetParam
    /\ last.sh = Var(<<Atom("bool"), Atom("string")>>)
    /\ last.err = ""
    /\ last.val.tag = 1
    /\ Called("SeekToMark", last.pos0)
    /\ cur = last.cur0 + 1
    /\ pos = last.pos0 + 1

(* Native buffers of the array and matrix readers *)
GetCall(k) == IF k = "array" THEN "GetReal32List" ELSE "GetReal32Array"
ReleaseCall(k) == IF k = "array" THEN "ReleaseReal32List" ELSE "ReleaseReal32Array"
MakeCall(k) == IF k = "array" THEN "MakeArray" ELSE "MakeMatrix"

\* C30: on the symbolic host, an array or matrix type test that got a buffer
\* from the host has released it exactly once when it returns, after getting
\* it and before seeking back to the mark, is back at the mark and has made
\* no handle; a committing read that got a buffer has made exactly one
\* handle from it and released nothing; and the buffer of a handle is
\* released at most once, namely once no reference to the handle is left.
C30_BufferReleasedOnce ==
    /\ (host = "M" /\ pc = "Active") =>
          \A k \in {"array", "matrix"} :
             LET test == TryReadHere(k, FALSE)
                 commit == TryReadHere(k, TRUE)
             IN  /\ (test.err = "" /\ test.ok) =>
                       /\ Cardinality(Calls(test, GetCall(k))) = 1
                       /\ Cardinality(Calls(test, ReleaseCall(k))) = 1
                       /\ Calls(test, MakeCall(k)) = {}
                       /\ \A g \in Calls(test, GetCall(k)),
                             r \in Calls(test, ReleaseCall(k)),
                             s \in Calls(test, "SeekToMark") : g < r /\ r < s
                       /\ Made(test, "SeekToMark", pos)
                       /\ test.st.pos = pos
                 /\ (commit.err = "" /\ commit.ok) =>
                       /\ Cardinality(Calls(commit, GetCall(k))) = 1
                       /\ Calls(commit, ReleaseCall(k)) = {}
                       /\ Cardinality(Calls(commit, MakeCall(k))) = 1
                 /\ (test.err = "" /\ ~test.ok) =>
                       /\ Calls(test, ReleaseCall(k)) = {}
                       /\ Calls(test, MakeCall(k)) = {}
    /\ \A h \in DOMAIN handles :
          handles[h].released = IF handles[h].refs = 0 THEN 1 ELSE 0
    /\ (host = "M" /\ AfterGetParam /\ last.err = "") =>
          /\ handles # <<>>
          /\ handles[Len(handles)].k = last.sh.k
          /\ Called(MakeCall(last.sh.k), last.pos0)
          /\ ~Called(ReleaseCall(last.sh.k), last.pos0)
          /\ ~handles[Len(handles)].over

\* a matrix was read into a handle in this session and is held, while the
\* array read before it has been dropped and released
C30_Witness ==
    /\ host = "M"
    /\ AfterGetParam
    /\ last.err = ""
    /\ last.sh = Atom("matrix")
    /\ Len(handles) = 2
    /\ handles[1].k = "array"
    /\ handles[1].released = 1
    /\ handles[2].k = "matrix"
    /\ handles[2].released = 0
    /\ Called("MakeMatrix", last.pos0)
    /\ MIsType("matrix", last.idx, St0).ok

(* The failure signal *)
\* positions of the token t in the output of the invocation
Puts(t) == { i \in DOMAIN out : out[i] = t }

\* the output from the first WSNewPacket on
FailureSignal ==
    LET first == CHOOSE i \in Puts(Ctl("NewPacket")) :
                    \A j \in Puts(Ctl("NewPacket")) : i <= j
    IN  SubSeq(out, first, Len(out))

\* C31: on the symbolic host, when an invocation has ended in the catch
\* block, its output ends with: WSNewPacket; EvaluatePacket[Message[
\* MessageName[namespace, name], text]]; WSFlush; WSNextPacket; WSNewPacket;
\* $Failed, in this order and with nothing in between.  $Failed is put once,
\* after the one EvaluatePacket, and an invocation that did not fail puts
\* neither.
C31_FailureSignalOrder ==
    (host = "M" /\ pc \in {"Idle", "Escaped"}) =>
       IF JustEnded /\ done = "Failed"
       THEN /\ Puts(Ctl("NewPacket")) # {}
            /\ Len(FailureSignal) = 11
            /\ FailureSignal[1] = Ctl("NewPacket")
            /\ FailureSignal[2] = Tk("FUNC", "EvaluatePacket", 1)
            /\ FailureSignal[3] = Tk("FUNC", "Message", 2)
            /\ FailureSignal[4] = Tk("FUNC", "MessageName", 2)
            /\ FailureSignal[5].t = "SYM"
            /\ FailureSignal[6].t = "STR"
            /\ FailureSignal[7].t = "STR"
            /\ FailureSignal[7].s \notin {"", "err"}
            /\ FailureSignal[8] = Ctl("Flush")
            /\ FailureSignal[9] = Ctl("NextPacket")
            /\ FailureSignal[10] = Ctl("NewPacket")
            /\ FailureSignal[11] = Tk("SYM", "$Failed", 0)
            /\ Cardinality(Puts(Tk("SYM", "$Failed", 0))) = 1
            /\ Cardinality(Puts(Tk("FUNC", "EvaluatePacket", 1))) = 1
       ELSE /\ Puts(Tk("SYM", "$Failed", 0)) = {}
            /\ Puts(Tk("FUNC", "EvaluatePacket", 1)) = {}

\* a body that wrote a result and then failed in a read
C31_Witness ==
    /\ host = "M"
    /\ JustEnded
    /\ done = "Failed"
    /\ nwrites = 1
    /\ Len(out) = 12
    /\ out[8].s = "TypeMismatchError"
    /\ out[12] = Tk("SYM", "$Failed", 0)

(* Tuple reads on the numeric host and the number of arguments *)
\* the read was rejected because arguments are missing: by the index check
\* or by the length check of the tuple reader
NotEnoughArgs(r) == r.err \in {"ProtocolError", "ArityError"}

\* C32: on the numeric host a tuple read of n elements at index i is rejected
\* for missing arguments exactly when i + n exceeds the number of arguments,
\* in each of the tuple readers of the repository: octavew / OMWrapperOctave
\* (OReadTuple) and OMWrapper<OMWT_OCTAVE> (OMWReadTuple).
C32_TupleUsesLastArguments ==
    (host = "O" /\ pc = "Active") =>
       \A Ts \in ListTypes, idx \in IdxRange :
          /\ NotEnoughArgs(OReadTuple(Ts, idx)) <=> idx + Len(Ts) > Len(args)
          /\ Len(Ts) > 1 =>
                (NotEnoughArgs(OMWReadTuple(Ts, idx)) <=> idx + Len(Ts) > Len(args))

(* The list reader of the numeric host *)
\* C33: on the numeric host the list reader of tuple width w at index f over
\* L arguments yields floor((L - f) / w) elements when f <= L and none when
\* f > L, and the elements it yields are read at f + k*w, wholly below L.
C33_ListCountWithinArguments ==
    (host = "O" /\ pc = "Active") =>
       \A Ts \in ListTypes, first \in IdxRange :
          /\ OListCount(Ts, first) =
                IF first <= Len(args) THEN (Len(args) - first) \div Len(Ts) ELSE 0
          /\ \A k \in 0..2 :
                k < OListCount(Ts, first) =>
                   DerefIdx(Len(Ts), first, k) + Len(Ts) <= Len(args)

(* mathematica_unescape, described escape by escape *)
\* the number of octal digits of s from position i on
RECURSIVE DigitRun(_, _)
DigitRun(s, i) ==
    IF i <= Len(s) /\ s[i] >= 48 /\ s[i] <= 55 THEN 1 + DigitRun(s, i + 1) ELSE 0

\* the octal value of the k digits of s that end at position j
RECURSIVE OctalValue(_, _, _)
OctalValue(s, j, k) ==
    IF k = 0 THEN 0 ELSE 8 * OctalValue(s, j - 1, k - 1) + (s[j] - 48)

\* s from position i on with every escape replaced, an octal escape by the
\* character of code (octal value) modulo width; a backslash that ends the
\* string gives a backslash and the terminating NUL
RECURSIVE EscapesReplaced(_, _, _)
EscapesReplaced(s, i, width) ==
    IF i > Len(s) THEN <<>>
    ELSE IF s[i] # 92 THEN <<s[i]>> \o EscapesReplaced(s, i + 1, width)
    ELSE IF i = Len(s) THEN <<92, 0>>
    ELSE CASE s[i + 1] = 110 -> <<10>> \o EscapesReplaced(s, i + 2, width)
           [] s[i + 1] = 114 -> <<13>> \o EscapesReplaced(s, i + 2, width)
           [] s[i + 1] = 116 -> <<9>> \o EscapesReplaced(s, i + 2, width)
           [] s[i + 1] = 48 ->
                <<OctalValue(s, i + 1 + DigitRun(s, i + 2), DigitRun(s, i + 2)) % width>>
                   \o EscapesReplaced(s, i + 2 + DigitRun(s, i + 2), width)
           [] OTHER -> <<92, s[i + 1]>> \o EscapesReplaced(s, i + 2, width)

\* the string argument of the call has been read; Source is what was sent
StringRead == host = "M" /\ AfterGetParam /\ last.sh = Atom("string") /\ last.err = ""
Source == link[1].s

\* the source ends inside an escape: in a backslash with nothing after it
RECURSIVE EndsInBackslash(_, _)
EndsInBackslash(s, i) ==
    IF i > Len(s) THEN FALSE
    ELSE IF s[i] # 92 THEN EndsInBackslash(s, i + 1)
    ELSE IF i = Len(s) THEN TRUE
    ELSE IF s[i + 1] = 48 THEN EndsInBackslash(s, i + 2 + DigitRun(s, i + 2))
    ELSE EndsInBackslash(s, i + 2)

\* C34, as amended: the string reader returns the source with backslash-n,
\* backslash-r, backslash-t replaced by line feed, carriage return, tab, a
\* backslash-0 and the octal digits after it replaced by the one character
\* whose code is their octal value modulo 256, a backslash and any other
\* character copied as those two characters, every other character copied,
\* all in order.
C34_EscapesReplacedModuloChar ==
    StringRead => last.val.s = EscapesReplaced(Source, 1, 256)

\* an octal escape above 0377 was read
C34_Witness ==
    StringRead /\ Source = <<92, 48, 55, 55, 55>> /\ last.val.s = <<255>>

\* C34, as stated: the character of an octal escape has the octal value of the
\* digits as its code (sources that end in a lone backslash left aside).
C34_EscapesReplaced ==
    (StringRead /\ ~EndsInBackslash(Source, 1)) =>
       last.val.s = EscapesReplaced(Source, 1, 1073741824)

\* C35: mathematica_unescape returns a string without backslash as it is and
\* never returns more characters than it was given.
C35_UnescapeNeverLonger ==
    StringRead =>
       /\ (\A i \in 1..Len(Source) : Source[i] # 92) => last.val.s = Source
       /\ Len(last.val.s) <= Len(Source)

(* Unsigned ints off the link *)
\* an unsigned int has been read from the integer the call was made with,
\* or, once the body has written it back, from the integer the peer returned
UIntRead == host = "M" /\ AfterGetParam /\ last.sh = Atom("uint")
WireInt == link[1].n

\* C36: on the symbolic host an unsigned int read of a wire integer v reports
\* no mismatch and returns the low 32 bits of v (v modulo 2^32), which is v
\* itself exactly when 0 <= v < 2^32 (the two high digits of v are zero); an
\* unsigned int written as the result and read back is the one written.
C36_UIntReadModulo ==
    UIntRead =>
       /\ last.err = ""
       /\ last.val.k = "uint"
       /\ last.val.n = <<WireInt[3], WireInt[4]>>
       /\ (<<0, 0>> \o last.val.n = WireInt) <=> (WireInt[1] = 0 /\ WireInt[2] = 0)
       /\ locals # <<>> => (last.val = locals[1] /\ <<0, 0>> \o last.val.n = WireInt)

\* the call was made with -1; 2^32 - 1 was read, written and read back
C36_Witness ==
    /\ UIntRead
    /\ locals = <<V("uint", <<65535, 65535>>, "digits", 0, <<>>)>>
    /\ last.val = locals[1]
    /\ WireInt = <<0, 0, 65535, 65535>>
    /\ done = "Completed"

(* Matrices on the numeric host *)
\* the element (i, j, k) of the array av of rank 2 or 3
ElemOf(av, i, j, k) == IF av.nd = 3 THEN av.at[<<i, j, k>>] ELSE av.at[<<i, j>>]

\* the dimensions (a, b, c) of the array av of rank 2 or 3, c = 1 for rank 2
Dims3(av) == <<av.dims[1], av.dims[2], IF av.nd = 3 THEN av.dims[3] ELSE 1>>

\* m is the row-major matrix of av: element (i, j, k) at (i*b + j)*c + k
IsRowMajorOf(m, av) ==
    LET a == Dims3(av)[1]
        b == Dims3(av)[2]
        c == Dims3(av)[3]
    IN  /\ m.dims = <<a, b, c>>
        /\ DOMAIN m.data = 0..(a * b * c - 1)
        /\ \A i \in 0..(a - 1), j \in 0..(b - 1), k \in 0..(c - 1) :
              m.data[(i * b + j) * c + k] = ElemOf(av, i, j, k)

MatrixReadDone == host = "O" /\ AfterGetParam /\ last.sh = Atom("matrix")
MatrixWritten == host = "O" /\ InBody /\ last.op = "write" /\ last.sh = Atom("matrix")

\* C37: on the numeric host a matrix read of a rank-2 or rank-3 array with
\* dimensions (a, b, c) gives a row-major buffer of a*b*c elements with
\* element (i, j, k) at offset (i*b + j)*c + k; writing that matrix back gives
\* an array of dimensions (a, b, c) with the same element at every (i, j, k);
\* an array of rank above 3 is rejected as a type mismatch.
C37_MatrixRowMajorRoundTrip ==
    /\ MatrixReadDone =>
          IF args[1].nd \in {2, 3}
          THEN last.err = "" /\ locals # <<>> /\ IsRowMajorOf(locals[1], args[1])
          ELSE last.err = "TypeMismatchError" /\ locals = <<>>
    /\ (MatrixWritten /\ args[1].nd \in {2, 3} /\ IsRowMajorOf(locals[1], args[1])) =>
          LET r == result[Len(result)]
          IN  /\ r.dims = Dims3(args[1])
              /\ \A i \in 0..(r.dims[1] - 1), j \in 0..(r.dims[2] - 1),
                    k \in 0..(r.dims[3] - 1) :
                    r.at[<<i, j, k>>] = ElemOf(args[1], i, j, k)

\* a 2 x 2 x 3 array was read and written back
C37_Witness ==
    /\ MatrixWritten
    /\ args[1].dims = <<2, 2, 3>>
    /\ IsRowMajorOf(locals[1], args[1])
    /\ locals[1].data[11] = 212
    /\ locals[1].data[1] = 101
    /\ result[1].dims = <<2, 2, 3>>
    /\ result[1].at[<<0, 0, 1>>] = 101

\* C38: the matrix result writer of the numeric host reads dims() only at
\* positions below the depth of the matrix it writes.
C38_WriterReadsDimsBelowDepth ==
    MatrixWritten =>
       \A q \in 1..Len(last.ev) :
          last.ev[q].e = "dims" => last.ev[q].p < Len(locals[1].dims)

C40_ReturnsThisInvocationsValues ==
    /\ [](host = "O" =>
            /\ (pc = "Idle" /\ done = "Completed") => returned = result
            /\ (pc = "Idle" /\ done = "Failed") => returned = <<>>
            /\ pc # "Escaped")
    /\ [][ host = "O" =>
             /\ (pc = "Idle" /\ pc' = "Active") => result' = <<>>
             /\ (pc = "Active" /\ pc' # "Idle") =>
                   IF nwrites' = nwrites + 1
                   THEN \E vs \in WriteArgs :
                           last'.idx = Len(vs) /\ result' = result \o vs
                   ELSE result' = result
             /\ (pc \in {"Active", "Thrown"} /\ pc' = "Idle") => result' = result ]_vars

=============================================================================
